---- MODULE Spec2Model ----
(***************************************************************************)
(* Model of the spreadsheet codec of scripts/fetch_linkedin_bios.py: the   *)
(* column address codec, the cell value resolver, the worksheet reader     *)
(* and the worksheet/package writer, over a small file system.             *)
(*                                                                         *)
(* A Python str is a sequence of one-character strings; the empty str is   *)
(* the empty sequence.  An XML part is a tree whose attribute values and   *)
(* text nodes hold the characters as they stand in the file (escaped).     *)
(***************************************************************************)
EXTENDS Integers, Sequences, FiniteSets, TLC

VARIABLES
    fs,             \* path -> file at that path
    pc,             \* position of the running codec call
    call,           \* the running call: operation, path and live locals
    handle,         \* the ZipFile handle of the running call
    opens,          \* ZipFile handles the running call has acquired
    shared_strings, \* local of read_rows_from_workbook
    result,         \* how the call ended: returned value or raised exception
    source,         \* history: path -> table last written completely there
    probe           \* input and output of a pure function under test

vars == <<fs, pc, call, handle, opens, shared_strings, result, source, probe>>

----------------------------------------------------------------------------
(* Bounds of the model.                                                    *)

MaxIndex == 730         \* column indices 0..MaxIndex (past "AAA" = 702)
MaxRows == 2            \* rows of a table handed to the writer
MaxCells == 3           \* cells of a table handed to the writer, all rows
MaxSheetRows == 2       \* row elements of a worksheet found on disk
MaxSheetCells == 2      \* cell elements of a worksheet found on disk
MaxShared == 2          \* entries of a shared string table
MaxValueLen == 2        \* characters of a cell's value text
MaxNegative == 3        \* negative column indices -MaxNegative..-1
MaxLabelLen == 2        \* characters of a column label handed to the codec

----------------------------------------------------------------------------
(* Characters and Python's str, int and list primitives.                   *)

UpperLetters ==
    << "A", "B", "C", "D", "E", "F", "G", "H", "I", "J", "K", "L", "M",
       "N", "O", "P", "Q", "R", "S", "T", "U", "V", "W", "X", "Y", "Z" >>

LowerLetters ==
    << "a", "b", "c", "d", "e", "f", "g", "h", "i", "j", "k", "l", "m",
       "n", "o", "p", "q", "r", "s", "t", "u", "v", "w", "x", "y", "z" >>

Digits == << "0", "1", "2", "3", "4", "5", "6", "7", "8", "9" >>

Range(s) == { s[i] : i \in DOMAIN s }

UpperSet == Range(UpperLetters)
LowerSet == Range(LowerLetters)
DigitSet == Range(Digits)
AlphaSet == UpperSet \cup LowerSet \cup {"e_acute", "E_ACUTE"}

PosIn(s, c) == CHOOSE i \in DOMAIN s : s[i] = c

\* str.isalpha() of one character ("e_acute" and "E_ACUTE" are the
\* characters U+00E9 and U+00C9: alphabetic, outside A-Z and a-z)
isalpha(c) == c \in AlphaSet

\* str.isdigit() of one character
isdigit(c) == c \in DigitSet

\* str.upper() of one character
upper(c) ==
    IF c \in LowerSet THEN UpperLetters[PosIn(LowerLetters, c)]
    ELSE IF c = "e_acute" THEN "E_ACUTE" ELSE c

\* ord() of a letter or digit
ord(c) ==
    IF c \in UpperSet THEN 64 + PosIn(UpperLetters, c)
    ELSE IF c \in LowerSet THEN 96 + PosIn(LowerLetters, c)
    ELSE IF c = "E_ACUTE" THEN 201
    ELSE IF c = "e_acute" THEN 233
    ELSE 47 + PosIn(Digits, c)

\* chr() of the code of an upper-case letter
chr(n) == UpperLetters[n - 64]

\* str(n) of a non-negative int
RECURSIVE str(_)
str(n) == IF n < 10 THEN << Digits[n + 1] >> ELSE str(n \div 10) \o << Digits[(n % 10) + 1] >>

\* "".join(parts)
RECURSIVE join(_)
join(parts) == IF parts = << >> THEN << >> ELSE Head(parts) \o join(Tail(parts))

Max(a, b) == IF a >= b THEN a ELSE b

\* max(S) of a non-empty collection
MaxOf(S) == CHOOSE x \in S : \A y \in S : y <= x

----------------------------------------------------------------------------
(* Optional values: << >> is None (no attribute, no element), << x >> is   *)
(* the value x.                                                            *)

None == << >>
Some(x) == << x >>

----------------------------------------------------------------------------
(* XML character data: xml.sax.saxutils.escape on the way out, the         *)
(* parser's decoding of a text node on the way in.                         *)

EscapeChar(c) ==
    IF c = "&" THEN << "&", "a", "m", "p", ";" >>
    ELSE IF c = ">" THEN << "&", "g", "t", ";" >>
    ELSE IF c = "<" THEN << "&", "l", "t", ";" >>
    ELSE << c >>

\* escape(value): &, > and < are replaced, & first
escape(value) == join([i \in DOMAIN value |-> EscapeChar(value[i])])

StartsWith(raw, i, pat) ==
    /\ i + Len(pat) - 1 <= Len(raw)
    /\ \A k \in DOMAIN pat : raw[i + k - 1] = pat[k]

Entities ==
    { [name |-> << "&", "a", "m", "p", ";" >>, char |-> "&"],
      [name |-> << "&", "l", "t", ";" >>, char |-> "<"],
      [name |-> << "&", "g", "t", ";" >>, char |-> ">"] }

ParseError == [ok |-> FALSE, exc |-> "ParseError"]

\* The text the XML parser hands over for the characters raw[i..] of a text
\* node: entity references are replaced, a line end (CR LF, or CR alone)
\* becomes LF, a bare "<" or "&" is not well-formed.
RECURSIVE XmlText(_, _, _)
XmlText(raw, i, acc) ==
    IF i > Len(raw) THEN [ok |-> TRUE, text |-> acc]
    ELSE IF raw[i] = "<" THEN ParseError
    ELSE IF raw[i] = "&" THEN
        IF \E e \in Entities : StartsWith(raw, i, e.name)
        THEN LET e == CHOOSE x \in Entities : StartsWith(raw, i, x.name)
             IN  XmlText(raw, i + Len(e.name), Append(acc, e.char))
        ELSE ParseError
    ELSE IF raw[i] = "\r" THEN
        XmlText(raw, IF StartsWith(raw, i + 1, << "\n" >>) THEN i + 2 ELSE i + 1,
                Append(acc, "\n"))
    ELSE XmlText(raw, i + 1, Append(acc, raw[i]))

\* an optional text node, decoded
XmlOptText(opt) ==
    IF opt = None THEN [ok |-> TRUE, text |-> None]
    ELSE LET d == XmlText(opt[1], 1, << >>)
         IN  IF d.ok THEN [ok |-> TRUE, text |-> Some(d.text)] ELSE ParseError

----------------------------------------------------------------------------
(* XML parts.  A cell element <c> is [r, t, v, is]: the attributes r       *)
(* (optional) and t ("None" when absent), the text of its <v> child        *)
(* (optional) and the children of its <is> child, each [tag, text] with    *)
(* tag "t" (a text element) or "r" (a rich-text run holding a <t>).        *)
(* A child of <sheetData> is [tag, r, cells].  A part is malformed, or a   *)
(* worksheet [hasSheetData, sheetData], or a shared string table [si]      *)
(* whose entries are [t, runs].                                            *)

Malformed == [kind |-> "malformed"]

\* ET.fromstring on a worksheet part: the tree with every text node decoded
CellParses(c) ==
    /\ XmlOptText(c.v).ok
    /\ \A k \in DOMAIN c.is : XmlText(c.is[k].text, 1, << >>).ok

RECURSIVE ParsedTexts(_)
ParsedTexts(is) ==
    IF is = << >> THEN << >>
    ELSE << [tag |-> Head(is).tag, text |-> XmlText(Head(is).text, 1, << >>).text] >>
         \o ParsedTexts(Tail(is))

ParsedCell(c) ==
    [r |-> c.r, t |-> c.t, v |-> XmlOptText(c.v).text, is |-> ParsedTexts(c.is)]

RECURSIVE ParsedCells(_)
ParsedCells(cells) ==
    IF cells = << >> THEN << >>
    ELSE << ParsedCell(Head(cells)) >> \o ParsedCells(Tail(cells))

RECURSIVE ParsedRows(_)
ParsedRows(elements) ==
    IF elements = << >> THEN << >>
    ELSE << [tag |-> Head(elements).tag, r |-> Head(elements).r,
             cells |-> ParsedCells(Head(elements).cells)] >>
         \o ParsedRows(Tail(elements))

fromstring_sheet(part) ==
    IF part.kind # "worksheet" THEN ParseError
    ELSE IF \E i \in DOMAIN part.sheetData :
                \E j \in DOMAIN part.sheetData[i].cells :
                    ~CellParses(part.sheetData[i].cells[j])
    THEN ParseError
    ELSE [ok |-> TRUE,
          hasSheetData |-> part.hasSheetData,
          sheetData |-> ParsedRows(part.sheetData)]

SiParses(si) ==
    /\ XmlOptText(si.t).ok
    /\ \A k \in DOMAIN si.runs : XmlOptText(si.runs[k]).ok

fromstring_sst(part) ==
    IF part.kind # "sst" THEN ParseError
    ELSE IF \E i \in DOMAIN part.si : ~SiParses(part.si[i]) THEN ParseError
    ELSE [ok |-> TRUE,
          si |-> [i \in DOMAIN part.si |->
                     [t |-> XmlOptText(part.si[i].t).text,
                      runs |-> [k \in DOMAIN part.si[i].runs |->
                                   XmlOptText(part.si[i].runs[k]).text]]]]

----------------------------------------------------------------------------
(* Outcomes of a call: none yet, a returned value, a raised exception.     *)

NoResult == [kind |-> "none"]
Return(value) == [kind |-> "return", value |-> value]
Raise(exc) == [kind |-> "raise", exc |-> exc]

----------------------------------------------------------------------------
(* Column address codec.                                                   *)

\* the for loop of column_letters_to_index, from character i on
RECURSIVE LettersLoop(_, _, _)
LettersLoopSkipping(column, i, index) ==
    IF i > Len(column) THEN index
    ELSE IF ~isalpha(column[i]) THEN LettersLoop(column, i + 1, index)
    ELSE LettersLoop(column, i + 1, index * 26 + (ord(upper(column[i])) - ord("A") + 1))
LettersLoop(column, i, index) ==
    IF i > Len(column) THEN index
    ELSE IF ~isalpha(column[i]) THEN index
    ELSE LettersLoop(column, i + 1, index * 26 + (ord(upper(column[i])) - ord("A") + 1))

column_letters_to_index_one_based(column) == LettersLoop(column, 1, 0)
column_letters_to_index(column) == LettersLoop(column, 1, 0) - 1

\* the while loop of column_index_to_letters
RECURSIVE IndexLoop(_, _)
IndexLoopNaive(current, res) ==
    IF current = 0 THEN res
    ELSE IndexLoop(current \div 26, << chr(ord("A") + (current % 26)) >> \o res)
IndexLoopAppending(current, res) ==
    IF current = 0 THEN res
    ELSE IndexLoop((current - 1) \div 26, res \o << chr(ord("A") + ((current - 1) % 26)) >>)
IndexLoop(current, res) ==
    IF current = 0 THEN res
    ELSE IndexLoop((current - 1) \div 26, << chr(ord("A") + ((current - 1) % 26)) >> \o res)

\* column_index_to_letters(index): the label, or the ValueError of a
\* negative index
column_index_to_letters_lax(index) ==
    IF index < -1 THEN Raise("ValueError") ELSE Return(IndexLoop(index + 1, << >>))
column_index_to_letters_from_index(index) ==
    IF index < 0 THEN Raise("ValueError") ELSE Return(IndexLoop(index, << >>))
column_index_to_letters(index) ==
    IF index < 0 THEN Raise("ValueError") ELSE Return(IndexLoop(index + 1, << >>))

----------------------------------------------------------------------------
(* Python's int(text) and list indexing.                                   *)

Whitespace == {" ", "\t", "\n"}

\* text.strip()
RECURSIVE strip(_)
strip(text) ==
    IF text = << >> THEN text
    ELSE IF Head(text) \in Whitespace THEN strip(Tail(text))
    ELSE IF text[Len(text)] \in Whitespace THEN strip(SubSeq(text, 1, Len(text) - 1))
    ELSE text

\* the value of a run of decimal digits
RECURSIVE DigitsValue(_, _)
DigitsValue(ds, acc) ==
    IF ds = << >> THEN acc ELSE DigitsValue(Tail(ds), acc * 10 + (ord(Head(ds)) - ord("0")))

AllDigits(ds) == ds # << >> /\ \A k \in DOMAIN ds : isdigit(ds[k])

\* int(text): surrounding whitespace, one optional sign, decimal digits;
\* anything else is a ValueError
int(text) ==
    LET body == strip(text)
        signed == body # << >> /\ Head(body) \in {"+", "-"}
        ds == IF signed THEN Tail(body) ELSE body
    IN  IF ~AllDigits(ds) THEN [ok |-> FALSE, exc |-> "ValueError"]
        ELSE [ok |-> TRUE,
              value |-> IF signed /\ Head(body) = "-" THEN 0 - DigitsValue(ds, 0)
                        ELSE DigitsValue(ds, 0)]

\* seq[i] of a Python list: 0-based, a negative i counts from the end
getitem(seq, i) ==
    IF 0 <= i /\ i < Len(seq) THEN [ok |-> TRUE, value |-> seq[i + 1]]
    ELSE IF 0 - Len(seq) <= i /\ i < 0 THEN [ok |-> TRUE, value |-> seq[Len(seq) + i + 1]]
    ELSE [ok |-> FALSE, exc |-> "IndexError"]

----------------------------------------------------------------------------
(* Shared string table reader and cell value resolver.                     *)

\* element.text is None for an element without character data
HasText(opt) == opt # None /\ opt[1] # << >>

\* the string of one <si> entry: the text of its <t> child when it has one,
\* else the texts of the <t> children of its <r> runs
SiString(si) ==
    IF HasText(si.t) THEN si.t[1]
    ELSE join([k \in DOMAIN si.runs |-> IF HasText(si.runs[k]) THEN si.runs[k][1] ELSE << >>])

\* cell.findtext("main:v", default="")
findtext_v(cell) == IF cell.v = None THEN << >> ELSE cell.v[1]

\* the children <t> of the cell's <is>: cell.findall("main:is/main:t")
RECURSIVE InlineTexts(_)
InlineTexts(is) ==
    IF is = << >> THEN << >>
    ELSE (IF Head(is).tag = "t" THEN << Head(is).text >> ELSE << >>) \o InlineTexts(Tail(is))

\* shared[int(value)], with the exception either step may raise
shared_lookup(shared, value) ==
    LET i == int(value)
    IN  IF ~i.ok THEN Raise(i.exc)
        ELSE LET item == getitem(shared, i.value)
             IN  IF ~item.ok THEN Raise(item.exc) ELSE Return(item.value)

\* except (IndexError, ValueError)
CaughtIndexErrorOnly == { "IndexError" }
Caught == { "IndexError", "ValueError" }

\* extract_cell_text(cell, shared): the returned string, or the exception
\* that leaves the function
extract_cell_text(cell, shared) ==
    IF cell.t = "s" THEN
        LET value == findtext_v(cell)
        IN  IF value = << >> THEN Return(<< >>)
            ELSE LET r == shared_lookup(shared, value)
                 IN  IF r.kind = "raise" /\ r.exc \in Caught THEN Return(<< >>) ELSE r
    ELSE IF cell.t = "inlineStr" THEN Return(join(InlineTexts(cell.is)))
    ELSE Return(findtext_v(cell))

----------------------------------------------------------------------------
(* Worksheet reader: the loops of read_rows_from_workbook.                 *)

\* "".join(ch for ch in ref if ch.isalpha())
RECURSIVE AlphaOnly(_)
AlphaOnly(ref) ==
    IF ref = << >> THEN << >>
    ELSE (IF isalpha(Head(ref)) THEN << Head(ref) >> ELSE << >>) \o AlphaOnly(Tail(ref))

\* cell.get("r", "")
get_r(cell) == IF cell.r = None THEN << >> ELSE cell.r[1]

Letters(cell) == AlphaOnly(get_r(cell))

\* dict assignment d[k] = v
DictSet(d, k, v) == (k :> v) @@ d

\* d.get(k, "")
DictGetMarked(d, k) == IF k \in DOMAIN d THEN d[k] ELSE << "?" >>
DictGet(d, k) == IF k \in DOMAIN d THEN d[k] ELSE << >>

EmptyDict == << >>

\* the inner loop over the cells of one row: the row's column -> value dict
RECURSIVE CellValues(_, _, _)
CellValues(cells, shared, acc) ==
    IF cells = << >> THEN acc
    ELSE IF Letters(Head(cells)) = << >> THEN CellValues(Tail(cells), shared, acc)
    ELSE CellValues(Tail(cells), shared,
                    DictSet(acc, column_letters_to_index(Letters(Head(cells))),
                            extract_cell_text(Head(cells), shared).value))

\* max_col = max(max_col, column_index + 1) over the cells of one row
RECURSIVE RowMaxCol(_, _)
RowMaxColNoPlus(cells, max_col) ==
    IF cells = << >> THEN max_col
    ELSE IF Letters(Head(cells)) = << >> THEN RowMaxCol(Tail(cells), max_col)
    ELSE RowMaxCol(Tail(cells),
                   Max(max_col, column_letters_to_index(Letters(Head(cells)))))
RowMaxCol(cells, max_col) ==
    IF cells = << >> THEN max_col
    ELSE IF Letters(Head(cells)) = << >> THEN RowMaxCol(Tail(cells), max_col)
    ELSE RowMaxCol(Tail(cells),
                   Max(max_col, column_letters_to_index(Letters(Head(cells))) + 1))

\* max_col after the outer loop over the children of <sheetData>
RECURSIVE SheetMaxCol(_, _)
SheetMaxCol(elements, max_col) ==
    IF elements = << >> THEN max_col
    ELSE SheetMaxCol(Tail(elements), RowMaxCol(Head(elements).cells, max_col))

\* rows_raw: the column -> value dict of every child of <sheetData>
RECURSIVE rows_raw(_, _)
rows_raw(elements, shared) ==
    IF elements = << >> THEN << >>
    ELSE << CellValues(Head(elements).cells, shared, EmptyDict) >>
         \o rows_raw(Tail(elements), shared)

\* [mapping.get(idx, "") for idx in range(max_col)], from idx on
RECURSIVE row_values(_, _, _)
row_values(mapping, idx, max_col) ==
    IF idx >= max_col THEN << >>
    ELSE << DictGet(mapping, idx) >> \o row_values(mapping, idx + 1, max_col)

RECURSIVE Materialized(_, _)
Materialized(mappings, max_col) ==
    IF mappings = << >> THEN << >>
    ELSE << row_values(Head(mappings), 0, max_col) >>
         \o Materialized(Tail(mappings), max_col)

\* the rows read_rows_from_workbook returns for a parsed <sheetData>
MaterializeRows(elements, shared) ==
    Materialized(rows_raw(elements, shared), SheetMaxCol(elements, 0))

----------------------------------------------------------------------------
(* Worksheet writer.                                                       *)

\* sanitize_rows: every row as a list, every cell as a str (the cells of
\* the tables below are str already, and str(cell) of a str is the cell)
sanitize_rows(rows) == [i \in DOMAIN rows |-> [j \in DOMAIN rows[i] |-> rows[i][j]]]

\* cell_ref = f"{column_index_to_letters(col_idx - 1)}{row_idx}"
cell_ref_shifted(row_idx, col_idx) ==
    column_index_to_letters(col_idx).value \o str(row_idx)
cell_ref(row_idx, col_idx) ==
    column_index_to_letters(col_idx - 1).value \o str(row_idx)

\* the inline string cell written for a non-empty value
cell_xml_raw(row_idx, col_idx, value) ==
    [r |-> Some(cell_ref(row_idx, col_idx)), t |-> "inlineStr", v |-> None,
     is |-> << [tag |-> "t", text |-> value] >>]
cell_xml_twice(row_idx, col_idx, value) ==
    [r |-> Some(cell_ref(row_idx, col_idx)), t |-> "inlineStr", v |-> None,
     is |-> << [tag |-> "t", text |-> escape(escape(value))] >>]
cell_xml(row_idx, col_idx, value) ==
    [r |-> Some(cell_ref(row_idx, col_idx)), t |-> "inlineStr", v |-> None,
     is |-> << [tag |-> "t", text |-> escape(value)] >>]

\* cells_xml of one row: the inner loop, from column col_idx (1-based) on
RECURSIVE cells_xml(_, _, _)
cells_xml(row, row_idx, col_idx) ==
    IF col_idx > Len(row) THEN << >>
    ELSE (IF row[col_idx] = << >> THEN << >>
          ELSE << cell_xml(row_idx, col_idx, row[col_idx]) >>)
         \o cells_xml(row, row_idx, col_idx + 1)

\* the <row> elements of <sheetData>: the outer loop, from row row_idx on
RECURSIVE row_elements(_, _)
row_elements_skipping(rows, row_idx) ==
    IF row_idx > Len(rows) THEN << >>
    ELSE (IF cells_xml(rows[row_idx], row_idx, 1) = << >> THEN << >>
          ELSE << [tag |-> "row", r |-> Some(str(row_idx)),
                   cells |-> cells_xml(rows[row_idx], row_idx, 1)] >>)
         \o row_elements(rows, row_idx + 1)
row_elements(rows, row_idx) ==
    IF row_idx > Len(rows) THEN << >>
    ELSE << [tag |-> "row", r |-> Some(str(row_idx)),
             cells |-> cells_xml(rows[row_idx], row_idx, 1)] >>
         \o row_elements(rows, row_idx + 1)

build_sheet_xml(rows) ==
    [kind |-> "worksheet", hasSheetData |-> TRUE, sheetData |-> row_elements(rows, 1)]

----------------------------------------------------------------------------
(* The package: a file is [exists, zip, parts]; zip says that the end of   *)
(* the archive (its central directory) is written, without which ZipFile   *)
(* cannot open it; parts are the entries written so far, in order.  A part *)
(* name, a relationship target and an override's part name are the         *)
(* sequences of their segments between the "/" (a leading "/" gives a      *)
(* first segment "").                                                      *)

Paths == {"book.xlsx"}

NoFile == [exists |-> FALSE, zip |-> FALSE, parts |-> << >>]

SHEET == << "xl", "worksheets", "sheet1.xml" >>
SST == << "xl", "sharedStrings.xml" >>

content_types_xml ==
    [kind |-> "types", defaults |-> {"rels", "xml"},
     overrides |-> { << "", "xl", "workbook.xml" >>,
                     << "", "xl", "worksheets", "sheet1.xml" >> }]

rels_xml ==
    [kind |-> "rels",
     rels |-> { [Id |-> "rId1", Type |-> "officeDocument",
                 Target |-> << "xl", "workbook.xml" >>] }]

workbook_xml ==
    [kind |-> "workbook",
     sheets |-> << [name |-> "Sheet1", sheetId |-> "1", rid |-> "rId1"] >>]

workbook_rels_xml_flat ==
    [kind |-> "rels",
     rels |-> { [Id |-> "rId1", Type |-> "worksheet", Target |-> << "sheet1.xml" >>] }]
workbook_rels_xml ==
    [kind |-> "rels",
     rels |-> { [Id |-> "rId1", Type |-> "worksheet",
                 Target |-> << "worksheets", "sheet1.xml" >>] }]

\* the five writestr calls of write_rows_to_workbook, in order
PartsToWrite(sheet_xml) ==
    << [name |-> << "[Content_Types].xml" >>, data |-> content_types_xml],
       [name |-> << "_rels", ".rels" >>, data |-> rels_xml],
       [name |-> << "xl", "workbook.xml" >>, data |-> workbook_xml],
       [name |-> << "xl", "_rels", "workbook.xml.rels" >>, data |-> workbook_rels_xml],
       [name |-> SHEET, data |-> sheet_xml] >>

HasPart(file, name) == \E k \in DOMAIN file.parts : file.parts[k].name = name

\* zf.read(name) of a part the archive holds
PartData(file, name) ==
    file.parts[CHOOSE k \in DOMAIN file.parts : file.parts[k].name = name].data

----------------------------------------------------------------------------
(* Calls in progress.                                                      *)

NoCall == [op |-> "none"]

NoProbe == [fn |-> "none"]

\* leaving a "with ZipFile(...) as zf:" block, normally or by an exception
exit_leaking(h) == h
exit_with(h) == "closed"

\* read_shared_strings(zf)
read_shared_strings_strict(file) ==
    IF ~HasPart(file, SST) THEN Raise("KeyError")
    ELSE LET root == fromstring_sst(PartData(file, SST))
         IN  IF ~root.ok THEN Raise("ParseError")
             ELSE Return([i \in DOMAIN root.si |-> SiString(root.si[i])])
read_shared_strings(file) ==
    IF ~HasPart(file, SST) THEN Return(<< >>)                \* KeyError caught
    ELSE LET root == fromstring_sst(PartData(file, SST))
         IN  IF ~root.ok THEN Raise("ParseError")
             ELSE Return([i \in DOMAIN root.si |-> SiString(root.si[i])])

\* read_rows_from_workbook after the shared strings are loaded
read_sheet_lenient(file, shared) ==
    IF ~HasPart(file, SHEET) THEN Return(<< >>)
    ELSE LET sheet_data == fromstring_sheet(PartData(file, SHEET))
         IN  IF ~sheet_data.ok THEN Raise("ParseError")
             ELSE IF ~sheet_data.hasSheetData THEN Return(<< >>)
             ELSE Return(MaterializeRows(sheet_data.sheetData, shared))
read_sheet_requiring_data(file, shared) ==
    IF ~HasPart(file, SHEET) THEN Raise("KeyError")
    ELSE LET sheet_data == fromstring_sheet(PartData(file, SHEET))
         IN  IF ~sheet_data.ok THEN Raise("ParseError")
             ELSE IF ~sheet_data.hasSheetData THEN Raise("TypeError")
             ELSE Return(MaterializeRows(sheet_data.sheetData, shared))
read_sheet(file, shared) ==
    IF ~HasPart(file, SHEET) THEN Raise("KeyError")
    ELSE LET sheet_data == fromstring_sheet(PartData(file, SHEET))
         IN  IF ~sheet_data.ok THEN Raise("ParseError")
             ELSE IF ~sheet_data.hasSheetData THEN Return(<< >>)
             ELSE Return(MaterializeRows(sheet_data.sheetData, shared))

----------------------------------------------------------------------------
(* Inputs: the tables handed to the writer and the workbooks found on disk *)

S_plain == << "N" >>
S_special == << "A", "&", "B", "<", "C", ">" >>
S_lineend == << "&", "l", "t", ";", "\r", "\n", "\r" >>

CellStrings == { << >>, S_plain, S_special, S_lineend }

\* the tables of n rows with at most budget cells in all
RECURSIVE TablesOf(_, _)
TablesOf(n, budget) ==
    IF n = 0 THEN { << >> }
    ELSE UNION { { << row >> \o rest : rest \in TablesOf(n - 1, budget - Len(row)) } :
                 row \in UNION { [1 .. w -> CellStrings] : w \in 0 .. budget } }

\* one-row tables whose only non-empty cell is far to the right
\* (columns "Z", "AA", "AB" and "BA")
WideColumns == { 25, 26, 27, 52 }
WideTables == { << [j \in 1 .. c + 1 |-> IF j = c + 1 THEN S_plain ELSE << >>] >> :
                c \in WideColumns }

\* [["Name", "City"], ["Acme", "Helsinki"], ["", ""]]
ExampleTable ==
    << << << "N", "a", "m", "e" >>, << "C", "i", "t", "y" >> >>,
       << << "A", "c", "m", "e" >>, << "H", "e", "l", "s", "i", "n", "k", "i" >> >>,
       << << >>, << >> >> >>

\* ten rows without cells and an eleventh with one value
TallTable == [i \in 1 .. 11 |-> IF i = 11 THEN << S_plain >> ELSE << >>]

Tables ==
    UNION { TablesOf(n, MaxCells) : n \in 0 .. MaxRows }
    \cup WideTables \cup { ExampleTable, TallTable }

Txt(c) == [tag |-> "t", text |-> << c >>]

\* a rich-text run <r><t>c</t></r>
Run(c) == [tag |-> "r", text |-> << c >>]

\* the children of an inline string: none, one text, a text with a
\* rich-text run and a second text after it, and two rich-text runs
InlineStrings ==
    { << >>, << Txt("y") >>, << Txt("p"), Run("q"), Txt("z") >>, << Run("a"), Run("b") >> }

CellPool ==
    { [r |-> Some(<< "A", "1" >>), t |-> "s", v |-> Some(<< "0" >>), is |-> << >>],
      [r |-> Some(<< "B", "1" >>), t |-> "s", v |-> Some(<< "5" >>), is |-> << >>],
      [r |-> Some(<< "B", "2" >>), t |-> "s", v |-> Some(<< "-", "1" >>), is |-> << >>],
      [r |-> Some(<< "C", "2" >>), t |-> "inlineStr", v |-> None,
       is |-> << [tag |-> "t", text |-> << "x", "&", "a", "m", "p", ";" >>] >>],
      [r |-> Some(<< "a", "1" >>), t |-> "None", v |-> Some(<< "4", "2" >>), is |-> << >>],
      [r |-> None, t |-> "None", v |-> Some(<< "7" >>), is |-> << >>],
      [r |-> Some(<< "1", "2" >>), t |-> "n", v |-> Some(<< "9" >>), is |-> << >>],
      [r |-> Some(<< "A", "1", "B" >>), t |-> "inlineStr", v |-> None, is |-> << Txt("y") >>] }

\* the <sheetData> contents of n rows with at most budget cells in all,
\* the first row numbered first
RECURSIVE SheetsOf(_, _, _)
SheetsOf(n, budget, first) ==
    IF n = 0 THEN { << >> }
    ELSE UNION { { << [tag |-> "row", r |-> Some(str(first)), cells |-> cells] >> \o rest :
                   rest \in SheetsOf(n - 1, budget - Len(cells), first + 1) } :
                 cells \in UNION { [1 .. w -> CellPool] : w \in 0 .. budget } }

\* a <sheetData> with an element that is no row between its two rows
ForeignSheet ==
    << [tag |-> "row", r |-> Some(str(1)),
        cells |-> << [r |-> Some(<< "A", "1" >>), t |-> "None", v |-> Some(<< "4", "2" >>),
                      is |-> << >>] >>],
       [tag |-> "foo", r |-> None, cells |-> << >>],
       [tag |-> "row", r |-> Some(str(2)),
        cells |-> << [r |-> Some(<< "B", "2" >>), t |-> "inlineStr", v |-> None,
                      is |-> << Txt("y") >>] >>] >>

SheetParts ==
    { Malformed, [kind |-> "worksheet", hasSheetData |-> FALSE, sheetData |-> << >>],
      [kind |-> "worksheet", hasSheetData |-> TRUE, sheetData |-> ForeignSheet] }
    \cup { [kind |-> "worksheet", hasSheetData |-> TRUE, sheetData |-> sd] :
           sd \in UNION { SheetsOf(n, MaxSheetCells, 1) : n \in 0 .. MaxSheetRows } }

SharedName(i) == << "s" >> \o str(i)

\* a shared string table of n entries; entry i is the string "s<i>"
SstPart(n) ==
    [kind |-> "sst", si |-> [i \in 1 .. n |-> [t |-> Some(SharedName(i - 1)), runs |-> << >>]]]

\* a shared string table with a plain entry "p", an entry of the two
\* rich-text runs "a" and "b", an entry with the plain text "p" followed by
\* a run "a", and an entry whose runs are one without text and "b"
RichSst ==
    [kind |-> "sst",
     si |-> << [t |-> Some(<< "p" >>), runs |-> << >>],
               [t |-> None, runs |-> << Some(<< "a" >>), Some(<< "b" >>) >>],
               [t |-> Some(<< "p" >>), runs |-> << Some(<< "a" >>) >>],
               [t |-> None, runs |-> << None, Some(<< "b" >>) >>] >>]

OtherParts == << [name |-> << "xl", "workbook.xml" >>, data |-> workbook_xml] >>

Archive(sst, sheet) == [exists |-> TRUE, zip |-> TRUE, parts |-> OtherParts \o sst \o sheet]

SheetVariants == { << >> } \cup { << [name |-> SHEET, data |-> d] >> : d \in SheetParts }

\* the files a call may find at a path: none, a file that is no archive,
\* archives without or with a shared strings part and without or with a
\* worksheet part, and archives whose shared strings part is malformed
InitialFiles ==
    { NoFile, [exists |-> TRUE, zip |-> FALSE, parts |-> << >>] }
    \cup { Archive(sst, sheet) :
           sst \in { << >>, << [name |-> SST, data |-> SstPart(MaxShared)] >> },
           sheet \in SheetVariants }
    \cup { Archive(<< [name |-> SST, data |-> RichSst] >>, sheet) :
           sheet \in { << >>, << [name |-> SHEET, data |-> build_sheet_xml(ExampleTable)] >> } }
    \cup { Archive(<< [name |-> SST, data |-> Malformed] >>, sheet) :
           sheet \in { << >>, << [name |-> SHEET, data |-> Malformed] >>,
                       << [name |-> SHEET, data |-> build_sheet_xml(ExampleTable)] >> } }

----------------------------------------------------------------------------
(* The calls of the codec, step by step.                                   *)

Init ==
    /\ fs \in [Paths -> InitialFiles]
    /\ pc = "idle"
    /\ call = NoCall
    /\ handle = "none"
    /\ opens = 0
    /\ shared_strings = << >>
    /\ result = NoResult
    /\ source = [p \in Paths |-> None]
    /\ probe = NoProbe

\* write_rows_to_workbook(path, rows) up to "with ZipFile(path, "w") as zf":
\* the rows are sanitized, the worksheet part is built, the destination is
\* created (or cannot be, and the call raises).  The callers write to a
\* fresh, timestamped path: the destination does not exist yet.
WriteOpen ==
    /\ pc = "idle"
    /\ \E p \in Paths :
        /\ ~fs[p].exists
        /\ \E rows \in Tables, ok \in BOOLEAN :
            IF ok
            THEN /\ call' = [op |-> "write", path |-> p, rows |-> rows,
                             sheet_xml |-> build_sheet_xml(sanitize_rows(rows))]
                 /\ fs' = [fs EXCEPT ![p] = [exists |-> TRUE, zip |-> FALSE, parts |-> << >>]]
                 /\ source' = [source EXCEPT ![p] = None]
                 /\ handle' = "open"
                 /\ opens' = opens + 1
                 /\ pc' = "write"
                 /\ UNCHANGED result
            ELSE /\ call' = [op |-> "write", path |-> p]
                 /\ result' = Raise("OSError")
                 /\ pc' = "done"
                 /\ UNCHANGED <<fs, source, handle, opens>>
    /\ UNCHANGED <<shared_strings, probe>>

\* one zf.writestr(name, data); when it fails the with block is left by the
\* exception and closing the archive may or may not complete it
WriteStr ==
    /\ pc = "write"
    /\ Len(fs[call.path].parts) < Len(PartsToWrite(call.sheet_xml))
    /\ \E ok \in BOOLEAN, closes \in BOOLEAN :
        IF ok
        THEN /\ fs' = [fs EXCEPT ![call.path].parts =
                          Append(@, PartsToWrite(call.sheet_xml)[Len(@) + 1])]
             /\ UNCHANGED <<pc, call, handle, result>>
        ELSE /\ fs' = [fs EXCEPT ![call.path].zip = closes]
             /\ call' = [op |-> "write", path |-> call.path]
             /\ handle' = exit_with(handle)
             /\ result' = Raise("OSError")
             /\ pc' = "done"
    /\ UNCHANGED <<opens, shared_strings, source, probe>>

\* the end of the with block after the fifth part: the archive is closed,
\* which writes its end (or fails to)
WriteClose ==
    /\ pc = "write"
    /\ Len(fs[call.path].parts) = Len(PartsToWrite(call.sheet_xml))
    /\ \E ok \in BOOLEAN :
        /\ fs' = [fs EXCEPT ![call.path].zip = ok]
        /\ result' = IF ok THEN Return(None) ELSE Raise("OSError")
        /\ source' = [source EXCEPT ![call.path] = IF ok THEN Some(call.rows) ELSE None]
    /\ call' = [op |-> "write", path |-> call.path]
    /\ handle' = exit_with(handle)
    /\ pc' = "done"
    /\ UNCHANGED <<opens, shared_strings, probe>>

\* read_rows_from_workbook(path) up to "with ZipFile(path) as zf"
ReadOpen ==
    /\ pc = "idle"
    /\ \E p \in Paths :
        /\ call' = [op |-> "read", path |-> p]
        /\ IF ~fs[p].exists
           THEN /\ result' = Raise("FileNotFoundError")
                /\ pc' = "done"
                /\ UNCHANGED <<handle, opens>>
           ELSE IF ~fs[p].zip
           THEN /\ result' = Raise("BadZipFile")
                /\ pc' = "done"
                /\ UNCHANGED <<handle, opens>>
           ELSE /\ handle' = "open"
                /\ opens' = opens + 1
                /\ pc' = "read_shared"
                /\ UNCHANGED result
    /\ UNCHANGED <<fs, shared_strings, source, probe>>

\* shared_strings = read_shared_strings(zf)
ReadSharedStrings ==
    /\ pc = "read_shared"
    /\ LET r == read_shared_strings(fs[call.path])
       IN  IF r.kind = "return"
           THEN /\ shared_strings' = r.value
                /\ pc' = "read_sheet"
                /\ UNCHANGED <<handle, result>>
           ELSE /\ result' = r
                /\ handle' = exit_with(handle)
                /\ pc' = "done"
                /\ UNCHANGED shared_strings
    /\ UNCHANGED <<fs, call, opens, source, probe>>

\* the rest of the with block: the worksheet part is read, parsed and
\* materialized, and the block is left by return or by an exception
ReadSheet ==
    /\ pc = "read_sheet"
    /\ result' = read_sheet(fs[call.path], shared_strings)
    /\ handle' = exit_with(handle)
    /\ pc' = "done"
    /\ UNCHANGED <<fs, call, opens, shared_strings, source, probe>>

\* the caller takes the outcome; the next call starts afresh
Finish ==
    /\ pc = "done"
    /\ pc' = "idle"
    /\ call' = NoCall
    /\ handle' = "none"
    /\ opens' = 0
    /\ shared_strings' = << >>
    /\ result' = NoResult
    /\ UNCHANGED <<fs, source, probe>>

Next ==
    \/ WriteOpen
    \/ WriteStr
    \/ WriteClose
    \/ ReadOpen
    \/ ReadSharedStrings
    \/ ReadSheet
    \/ Finish

Spec == Init /\ [][Next]_vars

----------------------------------------------------------------------------
(* The column codec under test: an index is drawn, converted to letters    *)
(* and converted back.                                                     *)

ColumnInputs ==
    { [fn |-> "column", stage |-> "input", index |-> n] : n \in (0 - MaxNegative) .. MaxIndex }

IndexToLetters ==
    /\ probe.fn = "column" /\ probe.stage = "input"
    /\ LET r == column_index_to_letters(probe.index)
       IN  probe' = IF r.kind = "raise"
                    THEN [fn |-> "column", stage |-> "raised", index |-> probe.index,
                          exc |-> r.exc]
                    ELSE [fn |-> "column", stage |-> "letters", index |-> probe.index,
                          letters |-> r.value]
    /\ UNCHANGED <<fs, pc, call, handle, opens, shared_strings, result, source>>

LettersToIndex ==
    /\ probe.fn = "column" /\ probe.stage = "letters"
    /\ probe' = [fn |-> "column", stage |-> "back", index |-> probe.index,
                 letters |-> probe.letters,
                 back |-> column_letters_to_index(probe.letters)]
    /\ UNCHANGED <<fs, pc, call, handle, opens, shared_strings, result, source>>

\* the labels handed to column_letters_to_index: upper-case letters, and a
\* lower-case letter, a digit, a "$" and a letter outside A-Z
LabelChars == UpperSet \cup { "a", "1", "$", "e_acute" }

\* full cell references: letters followed by a row number
References ==
    { << "B", "1", "2" >>, << "a", "b", "7" >>, << "A", "A", "1", "0" >>,
      << "A", "1", "B" >> }

Labels == UNION { [1 .. n -> LabelChars] : n \in 0 .. MaxLabelLen } \cup References

LabelInputs == { [fn |-> "label", stage |-> "input", label |-> l] : l \in Labels }

LabelToIndex ==
    /\ probe.fn = "label" /\ probe.stage = "input"
    /\ probe' = [fn |-> "label", stage |-> "index", label |-> probe.label,
                 index |-> column_letters_to_index(probe.label)]
    /\ UNCHANGED <<fs, pc, call, handle, opens, shared_strings, result, source>>

IndexToLabel ==
    /\ probe.fn = "label" /\ probe.stage = "index"
    /\ probe' = [fn |-> "label", stage |-> "back", label |-> probe.label,
                 index |-> probe.index,
                 back |-> column_index_to_letters(probe.index)]
    /\ UNCHANGED <<fs, pc, call, handle, opens, shared_strings, result, source>>

----------------------------------------------------------------------------
(* The cell value resolver under test: a cell element and a shared string  *)
(* table are drawn and the cell's text is extracted.                       *)

ValueChars == { "-", "+", " ", "0", "1", "2", "5", "x" }

ValueTexts == UNION { [1 .. n -> ValueChars] : n \in 0 .. MaxValueLen }

SharedTables == { [i \in 1 .. n |-> SharedName(i - 1)] : n \in 0 .. MaxShared }

CellInputs ==
    { [fn |-> "cell", stage |-> "input", shared |-> sh,
       cell |-> [r |-> Some(<< "A", "1" >>), t |-> t, v |-> v, is |-> is]] :
      sh \in SharedTables,
      t \in { "s", "inlineStr", "n", "None" },
      v \in { None } \cup { Some(x) : x \in ValueTexts },
      is \in InlineStrings }

ExtractCellText ==
    /\ probe.fn = "cell" /\ probe.stage = "input"
    /\ LET r == extract_cell_text(probe.cell, probe.shared)
       IN  probe' = IF r.kind = "raise"
                    THEN [fn |-> "cell", stage |-> "raised", shared |-> probe.shared,
                          cell |-> probe.cell, exc |-> r.exc]
                    ELSE [fn |-> "cell", stage |-> "text", shared |-> probe.shared,
                          cell |-> probe.cell, text |-> r.value]
    /\ UNCHANGED <<fs, pc, call, handle, opens, shared_strings, result, source>>

Quiet ==
    /\ fs = [p \in Paths |-> NoFile]
    /\ pc = "idle"
    /\ call = NoCall
    /\ handle = "none"
    /\ opens = 0
    /\ shared_strings = << >>
    /\ result = NoResult
    /\ source = [p \in Paths |-> None]

InitCell == probe \in CellInputs /\ Quiet

NextCell == ExtractCellText

SpecCell == InitCell /\ [][NextCell]_vars

InitCol == probe \in ColumnInputs \cup LabelInputs /\ Quiet

NextCol == IndexToLetters \/ LettersToIndex \/ LabelToIndex \/ IndexToLabel

SpecCol == InitCol /\ [][NextCol]_vars

----------------------------------------------------------------------------
(* Calls running in parallel.  Every thread runs calls of the codec on a   *)
(* path of its own; the threads' steps interleave.  What a call keeps in   *)
(* local variables (its position, its arguments, the archive handle, the   *)
(* shared strings, its outcome) is kept per thread: pc, call, handle,      *)
(* opens, shared_strings and result are functions of the thread here.      *)

Threads == { 1, 2 }

PathOf(t) == IF t = 1 THEN "a.xlsx" ELSE "b.xlsx"

ParPaths == { PathOf(t) : t \in Threads }

\* the variable that holds the shared strings of thread t's call: a local
\* variable of read_rows_from_workbook, one per call
shared_strings_global(t) == 1
shared_strings_of(t) == t

ParSheet ==
    [kind |-> "worksheet", hasSheetData |-> TRUE,
     sheetData |->
         << [tag |-> "row", r |-> Some(<< "1" >>),
             cells |-> << [r |-> Some(<< "A", "1" >>), t |-> "s", v |-> Some(<< "0" >>),
                           is |-> << >>],
                          [r |-> Some(<< "B", "1" >>), t |-> "inlineStr", v |-> None,
                           is |-> << Txt("y") >>] >>] >>]

ParFiles ==
    { NoFile, [exists |-> TRUE, zip |-> FALSE, parts |-> << >>],
      Archive(<< >>, << >>),
      Archive(<< >>, << [name |-> SHEET, data |-> ParSheet] >>),
      Archive(<< [name |-> SST, data |-> SstPart(MaxShared)] >>,
              << [name |-> SHEET, data |-> ParSheet] >>),
      Archive(<< [name |-> SST, data |-> Malformed] >>,
              << [name |-> SHEET, data |-> ParSheet] >>) }

ParTables == { << >>, << << S_special >>, << << >>, S_plain >> >> }

InitPar ==
    /\ fs \in [ParPaths -> ParFiles]
    /\ pc = [t \in Threads |-> "idle"]
    /\ call = [t \in Threads |-> NoCall]
    /\ handle = [t \in Threads |-> "none"]
    /\ opens = [t \in Threads |-> 0]
    /\ shared_strings = [t \in Threads |-> << >>]
    /\ result = [t \in Threads |-> NoResult]
    /\ source = [p \in ParPaths |-> None]
    /\ probe = NoProbe

\* thread t: write_rows_to_workbook up to "with ZipFile(path, "w") as zf"
ParWriteOpen(t) ==
    /\ pc[t] = "idle"
    /\ ~fs[PathOf(t)].exists
    /\ \E rows \in ParTables, ok \in BOOLEAN :
        IF ok
        THEN /\ call' = [call EXCEPT ![t] =
                             [op |-> "write", path |-> PathOf(t), rows |-> rows,
                              sheet_xml |-> build_sheet_xml(sanitize_rows(rows))]]
             /\ fs' = [fs EXCEPT ![PathOf(t)] =
                           [exists |-> TRUE, zip |-> FALSE, parts |-> << >>]]
             /\ handle' = [handle EXCEPT ![t] = "open"]
             /\ opens' = [opens EXCEPT ![t] = @ + 1]
             /\ pc' = [pc EXCEPT ![t] = "write"]
             /\ UNCHANGED result
        ELSE /\ call' = [call EXCEPT ![t] =
                             [op |-> "write", path |-> PathOf(t), rows |-> rows,
                              sheet_xml |-> build_sheet_xml(sanitize_rows(rows))]]
             /\ result' = [result EXCEPT ![t] = Raise("OSError")]
             /\ pc' = [pc EXCEPT ![t] = "done"]
             /\ UNCHANGED <<fs, handle, opens>>
    /\ UNCHANGED <<shared_strings, source, probe>>

\* thread t: one zf.writestr(name, data)
ParWriteStr(t) ==
    /\ pc[t] = "write"
    /\ Len(fs[call[t].path].parts) < Len(PartsToWrite(call[t].sheet_xml))
    /\ \E ok \in BOOLEAN, closes \in BOOLEAN :
        IF ok
        THEN /\ fs' = [fs EXCEPT ![call[t].path].parts =
                          Append(@, PartsToWrite(call[t].sheet_xml)[Len(@) + 1])]
             /\ UNCHANGED <<pc, handle, result>>
        ELSE /\ fs' = [fs EXCEPT ![call[t].path].zip = closes]
             /\ handle' = [handle EXCEPT ![t] = exit_with(@)]
             /\ result' = [result EXCEPT ![t] = Raise("OSError")]
             /\ pc' = [pc EXCEPT ![t] = "done"]
    /\ UNCHANGED <<call, opens, shared_strings, source, probe>>

\* thread t: the end of the with block of the write
ParWriteClose(t) ==
    /\ pc[t] = "write"
    /\ Len(fs[call[t].path].parts) = Len(PartsToWrite(call[t].sheet_xml))
    /\ \E ok \in BOOLEAN :
        /\ fs' = [fs EXCEPT ![call[t].path].zip = ok]
        /\ result' = [result EXCEPT ![t] = IF ok THEN Return(None) ELSE Raise("OSError")]
    /\ handle' = [handle EXCEPT ![t] = exit_with(@)]
    /\ pc' = [pc EXCEPT ![t] = "done"]
    /\ UNCHANGED <<call, opens, shared_strings, source, probe>>

\* thread t: read_rows_from_workbook up to "with ZipFile(path) as zf"; the
\* call record remembers the file the call found
ParReadOpen(t) ==
    /\ pc[t] = "idle"
    /\ call' = [call EXCEPT ![t] =
                    [op |-> "read", path |-> PathOf(t), found |-> fs[PathOf(t)]]]
    /\ IF ~fs[PathOf(t)].exists
       THEN /\ result' = [result EXCEPT ![t] = Raise("FileNotFoundError")]
            /\ pc' = [pc EXCEPT ![t] = "done"]
            /\ UNCHANGED <<handle, opens>>
       ELSE IF ~fs[PathOf(t)].zip
       THEN /\ result' = [result EXCEPT ![t] = Raise("BadZipFile")]
            /\ pc' = [pc EXCEPT ![t] = "done"]
            /\ UNCHANGED <<handle, opens>>
       ELSE /\ handle' = [handle EXCEPT ![t] = "open"]
            /\ opens' = [opens EXCEPT ![t] = @ + 1]
            /\ pc' = [pc EXCEPT ![t] = "read_shared"]
            /\ UNCHANGED result
    /\ UNCHANGED <<fs, shared_strings, source, probe>>

\* thread t: shared_strings = read_shared_strings(zf)
ParReadSharedStrings(t) ==
    /\ pc[t] = "read_shared"
    /\ LET r == read_shared_strings(fs[call[t].path])
       IN  IF r.kind = "return"
           THEN /\ shared_strings' = [shared_strings EXCEPT ![shared_strings_of(t)] = r.value]
                /\ pc' = [pc EXCEPT ![t] = "read_sheet"]
                /\ UNCHANGED <<handle, result>>
           ELSE /\ result' = [result EXCEPT ![t] = r]
                /\ handle' = [handle EXCEPT ![t] = exit_with(@)]
                /\ pc' = [pc EXCEPT ![t] = "done"]
                /\ UNCHANGED shared_strings
    /\ UNCHANGED <<fs, call, opens, source, probe>>

\* thread t: the rest of the with block of the read
ParReadSheet(t) ==
    /\ pc[t] = "read_sheet"
    /\ result' = [result EXCEPT ![t] =
                      read_sheet(fs[call[t].path], shared_strings[shared_strings_of(t)])]
    /\ handle' = [handle EXCEPT ![t] = exit_with(@)]
    /\ pc' = [pc EXCEPT ![t] = "done"]
    /\ UNCHANGED <<fs, call, opens, shared_strings, source, probe>>

\* thread t: the caller takes the outcome; the locals of the call are gone
ParFinish(t) ==
    /\ pc[t] = "done"
    /\ pc' = [pc EXCEPT ![t] = "idle"]
    /\ call' = [call EXCEPT ![t] = NoCall]
    /\ handle' = [handle EXCEPT ![t] = "none"]
    /\ opens' = [opens EXCEPT ![t] = 0]
    /\ shared_strings' = [shared_strings EXCEPT ![shared_strings_of(t)] = << >>]
    /\ result' = [result EXCEPT ![t] = NoResult]
    /\ UNCHANGED <<fs, source, probe>>

NextPar ==
    \/ \E t \in Threads : ParWriteOpen(t)
    \/ \E t \in Threads : ParWriteStr(t)
    \/ \E t \in Threads : ParWriteClose(t)
    \/ \E t \in Threads : ParReadOpen(t)
    \/ \E t \in Threads : ParReadSharedStrings(t)
    \/ \E t \in Threads : ParReadSheet(t)
    \/ \E t \in Threads : ParFinish(t)

SpecPar == InitPar /\ [][NextPar]_vars

----------------------------------------------------------------------------
(* The run of main: the input workbook is read, the result columns are     *)
(* located or added to the header, every data row is processed in turn and *)
(* the table is written to the output workbook.  The locals of main are    *)
(* the fields of probe, its configuration is call, its exit status or the  *)
(* exception that leaves it is result.                                     *)

MaxDataRows == 2

INPUT == "in.xlsx"
OUTPUT == "out.xlsx"
MainPaths == { INPUT, OUTPUT }

LinkedInPage == << "L", "i", "n", "k", "e", "d", "I", "n", " ", "P", "a", "g", "e" >>
Bio == << "B", "i", "o" >>
BackgroundCheck ==
    << "B", "a", "c", "k", "g", "r", "o", "u", "n", "d", " ", "C", "h", "e", "c", "k" >>
CompanyInfo == << "C", "o", "m", "p", "a", "n", "y", " ", "I", "n", "f", "o" >>
Name == << "N", "a", "m", "e" >>

\* read_rows_from_workbook(path) as a whole
read_rows_from_workbook(file) ==
    IF ~file.exists THEN Raise("FileNotFoundError")
    ELSE IF ~file.zip THEN Raise("BadZipFile")
    ELSE LET shared == read_shared_strings(file)
         IN  IF shared.kind = "raise" THEN shared ELSE read_sheet(file, shared.value)

\* list.index(x): the 0-based position of the first x, or ValueError
RECURSIVE index_from(_, _, _)
index_from(list, x, k) ==
    IF k > Len(list) THEN Raise("ValueError")
    ELSE IF list[k] = x THEN Return(k - 1)
    ELSE index_from(list, x, k + 1)

list_index(list, x) == index_from(list, x, 1)

\* list[i] = v
ListSet(list, i, v) == [list EXCEPT ![i + 1] = v]

\* [""] * n
RECURSIVE Blanks(_)
Blanks(n) == IF n <= 0 THEN << >> ELSE << << >> >> \o Blanks(n - 1)

\* the column of a result: that of its name in the header when it is there,
\* else a new column at the end of the header
column_of(header, name) ==
    LET found == list_index(header, name)
    IN  IF found.kind = "return" THEN found.value ELSE Len(header)

with_column(header, name) ==
    IF list_index(header, name).kind = "return" THEN header ELSE Append(header, name)

\* the indices main writes to: bio_index, and those of the enabled lookups
needed_indices(frame) ==
    { frame.bio_index }
    \cup (IF frame.bg_check_index # None THEN { frame.bg_check_index[1] } ELSE {})
    \cup (IF frame.company_info_index # None THEN { frame.company_info_index[1] } ELSE {})

\* row = list(row) + [""] * max(0, max_needed_index + 1 - len(row))
padded(row, frame) ==
    row \o Blanks(MaxOf(needed_indices(frame)) + 1 - Len(row))

\* the row of a profile: the bio and the results of the enabled lookups
profile_row(row, frame, bio, bg_check, company_info) ==
    LET with_bio == ListSet(row, frame.bio_index, bio)
        with_bg == IF frame.bg_check_index # None
                   THEN ListSet(with_bio, frame.bg_check_index[1], bg_check)
                   ELSE with_bio
    IN  IF frame.company_info_index # None
        THEN ListSet(with_bg, frame.company_info_index[1], company_info)
        ELSE with_bg

\* the row without a URL: the empty string in each result column
blank_row_kept(row, frame) == row
blank_row(row, frame) == profile_row(row, frame, << >>, << >>, << >>)

\* the calls main makes for one profile, in order
profile_calls(row_number, frame) ==
    << [fn |-> "fetch_profile_bio", row |-> row_number] >>
    \o (IF frame.bg_check_index # None
        THEN << [fn |-> "perform_background_check", row |-> row_number] >> ELSE << >>)
    \o (IF frame.company_info_index # None
        THEN << [fn |-> "lookup_company_info", row |-> row_number] >> ELSE << >>)

\* a row of a table under the given header: url in the "LinkedIn Page"
\* column, other in every other column
RowOf(header, url, other) ==
    [k \in DOMAIN header |-> IF header[k] = LinkedInPage THEN url ELSE other]

RowPool(header) ==
    { RowOf(header, << >>, << "o" >>), RowOf(header, << " " >>, << "o" >>),
      RowOf(header, << "u" >>, << "o" >>), RowOf(header, << " ", "u" >>, << >>) }

Headers ==
    { << Name, LinkedInPage >>, << LinkedInPage, Bio >>, << Name, Bio >>,
      << Bio, LinkedInPage, BackgroundCheck >>, << LinkedInPage, CompanyInfo, Name >> }

RECURSIVE DataRows(_, _)
DataRows(header, n) ==
    IF n = 0 THEN { << >> }
    ELSE { << row >> \o rest : row \in RowPool(header), rest \in DataRows(header, n - 1) }

\* the tables of the input workbooks: a header and up to MaxDataRows data
\* rows, and a table whose data row is wider than its header
MainTables ==
    UNION { { << header >> \o rows : rows \in DataRows(header, n) } :
            header \in Headers, n \in 0 .. MaxDataRows }
    \cup { << << Name, LinkedInPage >>, << << "o" >>, << "u" >>, << "o" >> >> >> }

SheetWithoutData == [kind |-> "worksheet", hasSheetData |-> FALSE, sheetData |-> << >>]

\* the files main may find at the input path
MainInputs ==
    { NoFile, [exists |-> TRUE, zip |-> FALSE, parts |-> << >>], Archive(<< >>, << >>),
      Archive(<< >>, << [name |-> SHEET, data |-> Malformed] >>),
      Archive(<< >>, << [name |-> SHEET, data |-> SheetWithoutData] >>),
      Archive(<< [name |-> SST, data |-> SstPart(MaxShared)] >>,
              << [name |-> SHEET, data |-> SheetWithoutData] >>),
      Archive(<< [name |-> SST, data |-> Malformed] >>,
              << [name |-> SHEET, data |-> SheetWithoutData] >>),
      Archive(<< >>, << [name |-> SHEET, data |-> build_sheet_xml(<< >>)] >>) }
    \cup { Archive(<< >>, << [name |-> SHEET, data |-> build_sheet_xml(sanitize_rows(T))] >>) :
           T \in MainTables }

\* what fetch_profile_bio gives for a URL: a bio, "Bio not found", or the
\* ValueError of urllib.request.Request for a URL it cannot make out
FetchOutcomes == { Return(<< "b" >>), Return(<< "n" >>), Raise("ValueError") }
Checks == { << "g" >> }
Infos == { << "c" >> }

InitMain ==
    /\ fs \in { [p \in MainPaths |-> IF p = INPUT THEN f ELSE NoFile] : f \in MainInputs }
    /\ pc = "read"
    /\ call \in { [op |-> "main", background_check |-> bg, company_lookup |-> co] :
                   bg \in BOOLEAN, co \in BOOLEAN }
    /\ handle = "none"
    /\ opens = 0
    /\ shared_strings = << >>
    /\ result = NoResult
    /\ source = [p \in MainPaths |-> None]
    /\ probe = [fn |-> "main", stderr |-> << >>, calls |-> << >>, passed |-> FALSE]

\* main returns status after the message on stderr
MainFails(message, status) ==
    /\ probe' = [probe EXCEPT !.stderr = Append(@, message)]
    /\ result' = Return(status)
    /\ pc' = "done"

\* main up to "header = rows[0]"
MainRead ==
    /\ pc = "read"
    /\ IF ~fs[INPUT].exists
       THEN MainFails("Input workbook not found", 1)
       ELSE LET rows == read_rows_from_workbook(fs[INPUT])
            IN  IF rows.kind = "raise"
                THEN /\ result' = rows
                     /\ pc' = "done"
                     /\ UNCHANGED probe
                ELSE IF rows.value = << >>
                THEN MainFails("Input workbook does not contain any rows", 1)
                ELSE /\ probe' = [rows |-> rows.value] @@ probe
                     /\ pc' = "header"
                     /\ UNCHANGED result
    /\ UNCHANGED <<fs, call, handle, opens, shared_strings, source>>

\* main from "header = rows[0]" to "output_rows = [list(header)]"
MainHeader ==
    /\ pc = "header"
    /\ LET header == probe.rows[1]
           url == list_index(header, LinkedInPage)
           bio_index == column_of(header, Bio)
           with_bio == with_column(header, Bio)
           with_bg == IF call.background_check
                      THEN with_column(with_bio, BackgroundCheck) ELSE with_bio
           with_company == IF call.company_lookup
                           THEN with_column(with_bg, CompanyInfo) ELSE with_bg
       IN  IF url.kind = "raise"
           THEN MainFails("Could not find 'LinkedIn Page' column in the input workbook", 1)
           ELSE /\ probe' =
                       [header |-> with_company,
                        rows_data |-> Tail(probe.rows),
                        url_index |-> url.value,
                        bio_index |-> bio_index,
                        bg_check_index |->
                            IF call.background_check
                            THEN Some(column_of(with_bio, BackgroundCheck)) ELSE None,
                        company_info_index |->
                            IF call.company_lookup
                            THEN Some(column_of(with_bg, CompanyInfo)) ELSE None,
                        output_rows |-> << with_company >>,
                        row_number |-> 2] @@ probe
                /\ pc' = "rows"
                /\ UNCHANGED result
    /\ UNCHANGED <<fs, call, handle, opens, shared_strings, source>>

\* one pass of the loop over rows_data
MainRow ==
    /\ pc = "rows"
    /\ probe.row_number - 1 <= Len(probe.rows_data)
    /\ LET row == padded(probe.rows_data[probe.row_number - 1], probe)
           url == strip(row[probe.url_index + 1])
       IN  IF url # << >>
           THEN \E bio \in FetchOutcomes, bg_check \in Checks, company_info \in Infos :
                    IF bio.kind = "raise"
                    THEN /\ result' = bio
                         /\ pc' = "done"
                         /\ probe' = [probe EXCEPT !.calls =
                                         Append(@, [fn |-> "fetch_profile_bio",
                                                    row |-> probe.row_number])]
                    ELSE /\ probe' =
                                [probe EXCEPT
                                    !.calls = @ \o profile_calls(probe.row_number, probe),
                                    !.output_rows =
                                        Append(@, SubSeq(profile_row(row, probe, bio.value,
                                                                     bg_check, company_info),
                                                         1, Len(probe.header))),
                                    !.row_number = @ + 1]
                         /\ UNCHANGED <<pc, result>>
           ELSE /\ probe' =
                       [probe EXCEPT
                           !.output_rows =
                               Append(@, SubSeq(blank_row(row, probe), 1, Len(probe.header))),
                           !.row_number = @ + 1]
                /\ UNCHANGED <<pc, result>>
    /\ UNCHANGED <<fs, call, handle, opens, shared_strings, source>>

\* main after the loop: the directory of the output is made, the table is
\* written and main returns 0, or either step fails and main raises
MainWrite ==
    /\ pc = "rows"
    /\ probe.row_number - 1 > Len(probe.rows_data)
    /\ \E outcome \in { "written", "no directory", "broken off" } :
        /\ probe' = [probe EXCEPT !.passed = outcome # "no directory"]
        /\ fs' = [fs EXCEPT ![OUTPUT] =
                      IF outcome = "written"
                      THEN [exists |-> TRUE, zip |-> TRUE,
                            parts |-> PartsToWrite(
                                          build_sheet_xml(sanitize_rows(probe.output_rows)))]
                      ELSE IF outcome = "broken off"
                      THEN [exists |-> TRUE, zip |-> FALSE, parts |-> << >>]
                      ELSE @]
        /\ source' = [source EXCEPT ![OUTPUT] =
                          IF outcome = "written" THEN Some(probe.output_rows) ELSE @]
        /\ result' = IF outcome = "written" THEN Return(0) ELSE Raise("OSError")
    /\ pc' = "done"
    /\ UNCHANGED <<call, handle, opens, shared_strings>>

NextMain ==
    \/ MainRead
    \/ MainHeader
    \/ MainRow
    \/ MainWrite

SpecMain == InitMain /\ [][NextMain]_vars

----------------------------------------------------------------------------
(* The three OpenAI lookups: analyze_description, fetch_company_info and   *)
(* research_investor.  What the OpenAI client does is the response record  *)
(* of the call: the import fails, the client or the API call raises, the   *)
(* response has no text or an empty one, the text is no JSON, the JSON has *)
(* not the shape the code takes apart (an exception), or it is the JSON    *)
(* object data.  A result is a record, one field per key of the dict;      *)
(* texts are strings, lists are sequences.                                 *)

\* ', '.join(list)
RECURSIVE join_comma(_)
join_comma(list) ==
    IF list = << >> THEN ""
    ELSE IF Len(list) = 1 THEN list[1]
    ELSE list[1] \o ", " \o join_comma(Tail(list))

\* text.lower(), for the texts the responses hold.  In the prompts and the
\* placeholder lists of analyze_descriptions.py and fetch_company_info.py
\* the euro sign is stored as the three characters of its UTF-8 bytes read
\* as cp1252; the one character "€" stands for them here.
lower(text) ==
    CASE text = "X€" -> "x€"
      [] text = "N.N." -> "n.n."
      [] text = "Unknown" -> "unknown"
      [] text = "He is ....." -> "he is ....."
      [] OTHER -> text

\* response_text[:n] + "..." if len(response_text) > n else response_text:
\* the texts of the responses drawn are shorter than n
truncated_response(response_text) == response_text

\* the dict every failing path of analyze_description returns
analysis_error_bare(message) == [AI_Error |-> message]
analysis_error(message) ==
    [AI_SectorFocus |-> "", AI_Stage |-> "", AI_TicketSize_Min |-> "",
     AI_TicketSize_Max |-> "", AI_Website |-> "", AI_Error |-> message]

\* analyze_description(description, existing_ticket_size, api_key); the
\* description is given by its length
analyze_description(description_len, api_key, response) ==
    IF description_len = 0 \/ description_len <= 50 \/ api_key = ""
    THEN analysis_error("Description too short or missing API key")
    ELSE IF response.kind = "ImportError" THEN analysis_error("OpenAI package not installed")
    ELSE IF response.kind = "client raises" THEN analysis_error(response.message)
    ELSE IF response.kind = "api raises"
    THEN analysis_error("API call failed: " \o response.message)
    ELSE IF response.kind = "no text" THEN analysis_error("Cannot extract response text")
    ELSE IF response.kind = "empty text" THEN analysis_error("Empty response")
    ELSE IF response.kind = "not json"
    THEN analysis_error("JSON parsing failed: " \o truncated_response(response.text))
    ELSE IF response.kind = "bad shape" THEN analysis_error(response.message)
    ELSE LET data == response.data
         IN  [AI_SectorFocus |-> join_comma(data.SectorFocus),
              AI_Stage |-> join_comma(data.Stage),
              AI_TicketSize_Min |->
                  IF data.TicketSize.dict THEN data.TicketSize.Min ELSE data.TicketSize.text,
              AI_TicketSize_Max |-> IF data.TicketSize.dict THEN data.TicketSize.Max ELSE "",
              AI_Website |-> data.Website,
              AI_Error |-> ""]

\* the dict the failing paths of fetch_company_info return
company_error(message) ==
    [AI_Revenue |-> "", AI_CEO_Name |-> "", AI_CEO_Bio |-> "", AI_LinkedIn_URL |-> "",
     AI_Error |-> message]

\* the value of a field of the response, or "" when it is a placeholder
cleaned(value, placeholders) ==
    IF value # "" /\ lower(value) \in placeholders THEN "" ELSE value

\* the lines of a response that is no JSON: the stripped text of a line,
\* whether it holds "revenue", the euro sign, "million", "ceo", and the
\* number of its words
IsRevenueLine(line) == line.revenue /\ (line.euro \/ line.million)
IsCeoLine(line) == line.ceo /\ line.words < 10

\* the first line that holds a revenue, stripped, or ""
RECURSIVE first_revenue_line(_)
first_revenue_line(lines) ==
    IF lines = << >> THEN ""
    ELSE IF IsRevenueLine(Head(lines)) THEN Head(lines).stripped
    ELSE first_revenue_line(Tail(lines))

\* the first line that holds the name of the CEO, stripped, or ""
RECURSIVE first_ceo_line(_)
first_ceo_line(lines) ==
    IF lines = << >> THEN ""
    ELSE IF IsCeoLine(Head(lines)) THEN Head(lines).stripped
    ELSE first_ceo_line(Tail(lines))

\* fetch_company_info(company_name, api_key)
fetch_company_info(company_name, api_key, response) ==
    IF company_name = "" \/ api_key = ""
    THEN company_error("Missing company name or API key")
    ELSE IF response.kind = "ImportError" THEN company_error("OpenAI package not installed")
    ELSE IF response.kind = "client raises" THEN company_error(response.message)
    ELSE IF response.kind = "api raises"
    THEN company_error("API call failed: " \o response.message)
    ELSE IF response.kind = "no text" THEN company_error("Cannot extract response text")
    ELSE IF response.kind = "empty text" THEN company_error("Empty response")
    ELSE IF response.kind = "not json"
    THEN [AI_Revenue |->
              IF \E k \in DOMAIN response.lines :
                     response.lines[k].revenue \/ response.lines[k].euro
              THEN first_revenue_line(response.lines) ELSE "",
          AI_CEO_Name |->
              IF \E k \in DOMAIN response.lines : response.lines[k].ceo
              THEN first_ceo_line(response.lines) ELSE "",
          AI_CEO_Bio |-> "",
          AI_LinkedIn_URL |-> "",
          AI_Error |-> "JSON parsing failed, extracted from text: "
                       \o truncated_response(response.text)]
    ELSE IF response.kind = "bad shape" THEN company_error(response.message)
    ELSE LET data == response.data
         IN  [AI_Revenue |->
                  cleaned(data.revenue, { "x€", "n.n.", "unknown", "not available" }),
              AI_CEO_Name |-> cleaned(data.ceoName, { "n.n.", "unknown", "not available" }),
              AI_CEO_Bio |->
                  cleaned(data.ceoBioInLinkedin, { "he is .....", "not available", "unknown" }),
              AI_LinkedIn_URL |->
                  cleaned(data.linkedInProfileUrl,
                          { "https://www.linkedin.com/in/ceo-name", "not available",
                            "unknown" }),
              AI_Error |-> ""]

\* the dict the failing paths of research_investor and of
\* research_investor_with_web return
investor_error(website, message) ==
    [Website |-> website, Investment_Stage |-> "", Ticket_Size |-> "",
     Sector_Focus |-> "", Investment_Strategy |-> "", Error |-> message]

\* ticket_str
ticket_str(ticket_info) ==
    IF ticket_info.Range # "" /\ ticket_info.Typical # ""
    THEN ticket_info.Range \o " (" \o ticket_info.Typical \o ")"
    ELSE IF ticket_info.Range # "" THEN ticket_info.Range ELSE ticket_info.Typical

\* the dict of a parsed response
investor_result(data) ==
    [Website |-> data.www,
     Investment_Stage |-> join_comma(data.InvestmentProfile.Stage),
     Ticket_Size |-> ticket_str(data.InvestmentProfile.TicketSize),
     Sector_Focus |-> join_comma(data.InvestmentProfile.SectorFocus),
     Investment_Strategy |-> data.InvestmentProfile.InvestmentStrategy,
     Error |-> ""]

\* research_investor_with_web(company_name, city, api_key)
research_investor_with_web(response) ==
    IF response.kind \in { "ImportError", "client raises", "api raises", "bad shape" }
    THEN investor_error("Web Search ERROR: " \o response.message, response.message)
    ELSE IF response.kind \in { "no text", "empty text" }
    THEN investor_error("ERROR: No web search response", "No web search response")
    ELSE IF response.kind = "not json"
    THEN [investor_error("Web Search JSON Parse Error",
                         "Web search JSON parsing failed: " \o response.message)
          EXCEPT !.Investment_Strategy = truncated_response(response.text)]
    ELSE investor_result(response.data)

\* is_empty_response
is_empty_response_never(found) == FALSE
is_empty_response(found) ==
    \/ found.Website \in { "[website.com]", "" }
    \/ found.Investment_Stage \in { "etc", "" }
    \/ found.Ticket_Size \in { "€X - €Y", "Around €X", "" }
    \/ found.Sector_Focus \in { "etc", "" }
    \/ found.Investment_Strategy \in { "Brief strategy description", "" }

\* research_investor(company_name, city, api_key): the dict it returns and
\* the calls of research_investor_with_web it makes; web is the response
\* the web search would get
research_investor(company_name, api_key, response, web) ==
    LET Result(value) == [value |-> value, calls |-> << >>]
    IN  IF company_name = "" \/ api_key = ""
        THEN Result(investor_error("ERROR: Missing company name or API key", "Missing data"))
        ELSE IF response.kind = "ImportError"
        THEN Result(investor_error("ERROR: OpenAI package not installed",
                                   "Missing OpenAI package"))
        ELSE IF response.kind = "client raises"
        THEN Result(investor_error("ERROR: " \o response.message, response.message))
        ELSE IF response.kind = "api raises"
        THEN Result(investor_error("API Error: " \o response.message,
                                   "API call failed: " \o response.message))
        ELSE IF response.kind = "no text"
        THEN Result(investor_error("ERROR: Cannot extract response text",
                                   "Cannot extract response text"))
        ELSE IF response.kind = "empty text"
        THEN Result(investor_error("ERROR: Empty response", "Empty response"))
        ELSE IF response.kind = "not json"
        THEN Result([investor_error("JSON Parse Error",
                                    "JSON parsing failed: " \o response.message)
                     EXCEPT !.Investment_Strategy = truncated_response(response.text)])
        ELSE IF response.kind = "bad shape"
        THEN Result(investor_error("ERROR: " \o response.message, response.message))
        ELSE LET found == investor_result(response.data)
                 web_result == research_investor_with_web(web)
             IN  IF is_empty_response(found)
                 THEN [value |-> IF web_result.Website # "" /\ web_result.Error = ""
                                 THEN web_result ELSE found,
                       calls |-> << "research_investor_with_web" >>]
                 ELSE Result(found)

\* the responses that are no JSON object of the expected shape
Failures ==
    { [kind |-> "ImportError", message |-> "No module named 'openai'"],
      [kind |-> "client raises", message |-> "The api_key client option must be set"],
      [kind |-> "api raises", message |-> "Connection error."],
      [kind |-> "no text"], [kind |-> "empty text"],
      [kind |-> "bad shape", message |-> "'list' object has no attribute 'get'"] }

NotJson ==
    [kind |-> "not json", text |-> "Sorry, nothing found",
     message |-> "Expecting value: line 1 column 1 (char 0)",
     lines |-> << [stripped |-> "Sorry, nothing found", revenue |-> FALSE, euro |-> FALSE,
                   million |-> FALSE, ceo |-> FALSE, words |-> 3] >>]

NotJsonWithFacts ==
    [kind |-> "not json", text |-> "Revenue: 5 million\nCEO: Ann Lee",
     message |-> "Expecting value: line 1 column 1 (char 0)",
     lines |-> << [stripped |-> "Revenue: 5 million", revenue |-> TRUE, euro |-> FALSE,
                   million |-> TRUE, ceo |-> FALSE, words |-> 3],
                  [stripped |-> "CEO: Ann Lee", revenue |-> FALSE, euro |-> FALSE,
                   million |-> FALSE, ceo |-> TRUE, words |-> 3] >>]

AnalysisResponses ==
    Failures \cup { NotJson }
    \cup { [kind |-> "json",
            data |-> [SectorFocus |-> sectors, Stage |-> stages, TicketSize |-> ticket,
                      Website |-> website]] :
           sectors \in { << >>, << "FinTech", "Healthcare" >> },
           stages \in { << >>, << "Seed" >> },
           ticket \in { [dict |-> TRUE, Min |-> "€100K", Max |-> "€5M"],
                        [dict |-> TRUE, Min |-> "", Max |-> ""],
                        [dict |-> FALSE, text |-> "5M"] },
           website \in { "", "www.example.com" } }

CompanyResponses ==
    Failures \cup { NotJson, NotJsonWithFacts }
    \cup { [kind |-> "json",
            data |-> [revenue |-> revenue, ceoName |-> name, ceoBioInLinkedin |-> bio,
                      linkedInProfileUrl |-> url]] :
           revenue \in { "", "X€", "5 M€" },
           name \in { "N.N.", "Ann Lee" },
           bio \in { "Unknown", "She is the CEO" },
           url \in { "", "https://www.linkedin.com/in/ceo-name" } }

InvestorData ==
    { [www |-> www,
       InvestmentProfile |->
           [Stage |-> stages, TicketSize |-> [Currency |-> "EUR", Range |-> range,
                                             Typical |-> typical],
            SectorFocus |-> sectors, InvestmentStrategy |-> strategy]] :
      www \in { "", "[website.com]", "acme.vc" },
      stages \in { << "etc" >>, << "Seed", "Series A" >> },
      range \in { "€X - €Y", "€1M - €5M" },
      typical \in { "", "Around €X" },
      sectors \in { << >>, << "B2B SaaS" >> },
      strategy \in { "Brief strategy description", "Early B2B software" } }

InvestorResponses ==
    Failures \cup { NotJson } \cup { [kind |-> "json", data |-> d] : d \in InvestorData }

WebResponses ==
    { [kind |-> "api raises", message |-> "Connection error."], [kind |-> "no text"], NotJson }
    \cup { [kind |-> "json", data |-> d] :
           d \in { x \in InvestorData :
                     /\ x.InvestmentProfile.Stage # << "etc" >>
                     /\ x.InvestmentProfile.TicketSize.Typical = ""
                     /\ x.InvestmentProfile.SectorFocus # << >>
                     /\ x.www # "[website.com]"
                     /\ x.InvestmentProfile.TicketSize.Range # "€X - €Y" } }

ApiKeys == { "", "sk-test" }

\* the calls under test: the function, its arguments and what the OpenAI
\* client will answer
LookupInputs ==
    { [fn |-> "analyze_description", stage |-> "input", description_len |-> n,
       api_key |-> key, response |-> r] :
      n \in { 0, 50, 51 }, key \in ApiKeys, r \in AnalysisResponses }
    \cup { [fn |-> "fetch_company_info", stage |-> "input", company_name |-> c,
            api_key |-> key, response |-> r] :
           c \in { "", "Acme" }, key \in ApiKeys, r \in CompanyResponses }
    \cup { [fn |-> "research_investor", stage |-> "input", company_name |-> c,
            api_key |-> key, response |-> NotJson, web |-> NotJson] :
           c \in { "", "Acme" }, key \in ApiKeys }
    \cup { [fn |-> "research_investor", stage |-> "input", company_name |-> "Acme",
            api_key |-> "sk-test", response |-> r, web |-> w] :
           r \in InvestorResponses, w \in WebResponses }

\* the columns the main loop of the caller copies from the result
ColumnsCopied(fn) ==
    IF fn = "analyze_description"
    THEN { "AI_SectorFocus", "AI_Stage", "AI_TicketSize_Min", "AI_TicketSize_Max",
           "AI_Website", "AI_Error" }
    ELSE IF fn = "fetch_company_info"
    THEN { "AI_Revenue", "AI_CEO_Name", "AI_CEO_Bio", "AI_LinkedIn_URL", "AI_Error" }
    ELSE { "Website", "Investment_Stage", "Ticket_Size", "Sector_Focus",
           "Investment_Strategy" }

Returned(value, calls) ==
    probe' = [stage |-> "returned", result |-> value, calls |-> calls] @@ probe

AnalyzeDescription ==
    /\ probe.fn = "analyze_description" /\ probe.stage = "input"
    /\ Returned(analyze_description(probe.description_len, probe.api_key, probe.response),
                << >>)
    /\ UNCHANGED <<fs, pc, call, handle, opens, shared_strings, result, source>>

FetchCompanyInfo ==
    /\ probe.fn = "fetch_company_info" /\ probe.stage = "input"
    /\ Returned(fetch_company_info(probe.company_name, probe.api_key, probe.response),
                << >>)
    /\ UNCHANGED <<fs, pc, call, handle, opens, shared_strings, result, source>>

ResearchInvestor ==
    /\ probe.fn = "research_investor" /\ probe.stage = "input"
    /\ LET r == research_investor(probe.company_name, probe.api_key, probe.response,
                                  probe.web)
       IN  Returned(r.value, r.calls)
    /\ UNCHANGED <<fs, pc, call, handle, opens, shared_strings, result, source>>

\* the update of the row in the main loop of the caller:
\* df.at[idx, col] = result[col] for every column it copies
CopyResult ==
    /\ probe.fn \in { "analyze_description", "fetch_company_info", "research_investor" }
    /\ probe.stage = "returned"
    /\ probe' = IF ColumnsCopied(probe.fn) \subseteq DOMAIN probe.result
                THEN [stage |-> "copied",
                      row |-> [col \in ColumnsCopied(probe.fn) |-> probe.result[col]]]
                     @@ probe
                ELSE [stage |-> "raised", exc |-> "KeyError"] @@ probe
    /\ UNCHANGED <<fs, pc, call, handle, opens, shared_strings, result, source>>

InitLookup == probe \in LookupInputs /\ Quiet

NextLookup ==
    \/ AnalyzeDescription
    \/ FetchCompanyInfo
    \/ ResearchInvestor
    \/ CopyResult

SpecLookup == InitLookup /\ [][NextLookup]_vars

----------------------------------------------------------------------------
(* The run of enrich_investor_data.main: the arguments are call, the       *)
(* locals of main are the fields of probe, its exit status is result.  A   *)
(* spreadsheet is the sequence of its rows, row 1 the header; a cell of    *)
(* the company column is a text or NaN (an empty cell).                    *)

MaxDfRows == 3
MaxStartRow == 3
MaxMaxRows == 2

NaN == [nan |-> TRUE, text |-> ""]
Text(text) == [nan |-> FALSE, text |-> text]

\* str(cell) of a cell of the data frame
str_of(cell) == IF cell.nan THEN "nan" ELSE cell.text

\* text.strip(), for the texts the cells hold
stripped(text) ==
    CASE text = " Beta " -> "Beta"
      [] text = " " -> ""
      [] OTHER -> text

\* pd.read_excel(filename): the first row of the sheet gives the column
\* labels, the rows below it are the rows of the frame, indexed from 0
read_excel(sheet) == [columns |-> Head(sheet), rows |-> Tail(sheet)]

\* min(a, b)
Min(a, b) == IF a <= b THEN a ELSE b

\* end_row
end_row_of(start_row, max_rows, len) ==
    IF max_rows # None /\ max_rows[1] # 0 THEN Min(start_row + max_rows[1], len) ELSE len

new_columns ==
    << "Website", "Investment_Stage", "Ticket_Size", "Sector_Focus", "Investment_Strategy" >>

\* the row of the frame before the run: the company, and "" in the result
\* columns the loop over new_columns adds
FrameRow(cells) ==
    [company |-> cells.company, city |-> cells.city]
    @@ [col \in Range(new_columns) |-> ""]

RECURSIVE FrameRows(_)
FrameRows(rows) ==
    IF rows = << >> THEN << >> ELSE << FrameRow(Head(rows)) >> \o FrameRows(Tail(rows))

\* the header of a sheet of n columns
HeaderOf(n) == SubSeq(<< "Company", "Type", "Country", "City" >>, 1, n)

CompanyCells == { Text("Acme"), Text(" Beta "), NaN }

RECURSIVE SheetRows(_)
SheetRows(n) ==
    IF n = 0 THEN { << >> }
    ELSE { << [company |-> c, city |-> "Helsinki"] >> \o rest :
           c \in CompanyCells, rest \in SheetRows(n - 1) }

\* the input files: none, sheets of one and of three columns, and sheets of
\* four columns with up to MaxDfRows rows below the header
EnrichFiles ==
    { [exists |-> FALSE], [exists |-> TRUE, sheet |-> << HeaderOf(1) >>],
      [exists |-> TRUE, sheet |-> << HeaderOf(3) >>] }
    \cup { [exists |-> TRUE, sheet |-> << HeaderOf(4) >> \o rows] :
           rows \in UNION { SheetRows(n) : n \in 0 .. MaxDfRows } }

EnrichArgs ==
    { [op |-> "enrich", api_key |-> "sk-test", start_row |-> s, max_rows |-> m, file |-> f] :
      s \in 1 .. MaxStartRow,
      m \in { None } \cup { Some(k) : k \in 0 .. MaxMaxRows },
      f \in EnrichFiles }
    \cup { [op |-> "enrich", api_key |-> "", start_row |-> 2, max_rows |-> None,
            file |-> [exists |-> FALSE]] }

\* what the OpenAI client answers to the research of a company
EnrichResponses ==
    { [kind |-> "api raises", message |-> "Connection error."],
      [kind |-> "json",
       data |-> [www |-> "acme.vc",
                 InvestmentProfile |->
                     [Stage |-> << "Seed", "Series A" >>,
                      TicketSize |-> [Currency |-> "EUR", Range |-> "€1M - €5M",
                                      Typical |-> ""],
                      SectorFocus |-> << "B2B SaaS" >>,
                      InvestmentStrategy |-> "Early B2B software"]]] }

InitEnrich ==
    /\ call \in EnrichArgs
    /\ probe = [fn |-> "enrich_main"]
    /\ pc = "start"
    /\ fs = [p \in Paths |-> NoFile]
    /\ handle = "none"
    /\ opens = 0
    /\ shared_strings = << >>
    /\ result = NoResult
    /\ source = [p \in Paths |-> None]

\* main up to the loop over the rows
EnrichStart ==
    /\ pc = "start"
    /\ IF call.api_key = "" \/ ~call.file.exists
       THEN /\ result' = Return(1)
            /\ pc' = "done"
            /\ UNCHANGED probe
       ELSE LET df == read_excel(call.file.sheet)
                start_row == call.start_row - 1
            IN  IF Len(df.columns) < 2        \* the message and return 1
                   \/ Len(df.columns) < 4    \* IndexError, caught: return 1
                THEN /\ result' = Return(1)
                     /\ pc' = "done"
                     /\ UNCHANGED probe
                ELSE /\ probe' = [df |-> FrameRows(df.rows),
                                  start_row |-> start_row,
                                  end_row |-> end_row_of(start_row, call.max_rows,
                                                         Len(df.rows)),
                                  idx |-> start_row,
                                  visited |-> << >>,
                                  processed |-> 0] @@ probe
                     /\ pc' = "rows"
                     /\ UNCHANGED result
    /\ UNCHANGED <<fs, call, handle, opens, shared_strings, source>>

\* one pass of "for idx in range(start_row, end_row)"
EnrichRow ==
    /\ pc = "rows"
    /\ probe.idx < probe.end_row
    /\ LET row == probe.df[probe.idx + 1]          \* df.iloc[idx]
           company == stripped(str_of(row.company))
       IN  IF company # "" /\ lower(company) # "nan"
           THEN \E response \in EnrichResponses :
                    LET found == research_investor(company, call.api_key, response,
                                                   NotJson).value
                    IN  probe' =
                            [probe EXCEPT
                                !.df[probe.idx + 1] =
                                    [col \in Range(new_columns) |-> found[col]] @@ @,
                                !.visited = Append(@, probe.idx),
                                !.processed = @ + 1,
                                !.idx = @ + 1]
           ELSE probe' = [probe EXCEPT !.visited = Append(@, probe.idx), !.idx = @ + 1]
    /\ UNCHANGED <<fs, pc, call, handle, opens, shared_strings, result, source>>

\* main after the loop: df.to_excel writes the enriched sheet and main
\* returns 0, or it raises and main returns 1
EnrichSave ==
    /\ pc = "rows"
    /\ probe.idx >= probe.end_row
    /\ \E saved \in BOOLEAN :
        /\ probe' = [saved |-> saved] @@ probe
        /\ result' = Return(IF saved THEN 0 ELSE 1)
    /\ pc' = "done"
    /\ UNCHANGED <<fs, call, handle, opens, shared_strings, source>>

NextEnrich ==
    \/ EnrichStart
    \/ EnrichRow
    \/ EnrichSave

SpecEnrich == InitEnrich /\ [][NextEnrich]_vars

----------------------------------------------------------------------------
(* Properties of the column address codec (SpecCol).                       *)

\* C1: for every non-negative index n, converting n to letters and the
\* letters back to an index gives n.
C1_RoundTrip ==
    (probe.fn = "column" /\ probe.stage = "back") => probe.back = probe.index

\* an index past "ZZ" (three letters) has made the round trip
C1_Witness ==
    /\ probe.fn = "column" /\ probe.stage = "back"
    /\ probe.index >= 702
    /\ Len(probe.letters) = 3

IsUpperLabel(l) == l # << >> /\ \A k \in DOMAIN l : l[k] \in UpperSet

\* C12: the conversion of a column index to letters is a bijection between
\* the non-negative indices and the non-empty labels of letters A..Z: no
\* other index has the label of a given index, and a label converted to
\* its index and back is the same label.
C12_Bijection ==
    /\ (probe.fn = "column" /\ probe.stage = "letters") =>
           \A m \in 0 .. MaxIndex :
               m # probe.index => column_index_to_letters(m).value # probe.letters
    /\ (probe.fn = "label" /\ probe.stage = "back" /\ IsUpperLabel(probe.label)) =>
           probe.back = Return(probe.label)

\* the two-letter label "ZZ" went to its index 701 and back
C12_Witness ==
    /\ probe.fn = "label" /\ probe.stage = "back"
    /\ probe.label = << "Z", "Z" >>
    /\ probe.index = 701
    /\ probe.back = Return(<< "Z", "Z" >>)

StartsWithLetter(l) == l # << >> /\ l[1] \in AlphaSet

\* C13: column_index_to_letters returns a non-empty label for every
\* non-negative index, and column_letters_to_index returns -1 for the empty
\* string and for every string that does not start with a letter.
C13_NoEmptyLabelNoColumn ==
    /\ (probe.fn = "column" /\ probe.stage = "letters" /\ probe.index >= 0) =>
           probe.letters # << >>
    /\ (probe.fn = "label" /\ probe.stage = "back" /\ probe.index >= 0) =>
           (probe.back.kind = "return" /\ probe.back.value # << >>)
    /\ (probe.fn = "label" /\ probe.stage \in { "index", "back" }
            /\ ~StartsWithLetter(probe.label)) =>
           probe.index = -1

\* the string "1A", which starts with a digit, has been converted
C13_Witness ==
    /\ probe.fn = "label" /\ probe.stage = "index"
    /\ probe.label = << "1", "A" >>
    /\ probe.index = -1

\* C14: column_index_to_letters raises its ValueError for every negative
\* index and returns no label then.
C14_NegativeIndexRaises ==
    /\ (probe.fn = "column" /\ probe.stage # "input" /\ probe.index < 0) =>
           (probe.stage = "raised" /\ probe.exc = "ValueError")
    /\ (probe.fn = "label" /\ probe.stage = "back" /\ probe.index < 0) =>
           probe.back = Raise("ValueError")

\* the index -1 has been handed to column_index_to_letters
C14_Witness ==
    /\ probe.fn = "column" /\ probe.stage = "raised"
    /\ probe.index = -1
    /\ probe.exc = "ValueError"

\* bijective base 26 of n: (n - 1) mod 26 is the least significant letter,
\* the letters before it are those of (n - 1) div 26, and 0 has no letters
RECURSIVE Bijective26(_)
Bijective26(n) ==
    IF n = 0 THEN << >>
    ELSE Bijective26((n - 1) \div 26) \o << UpperLetters[((n - 1) % 26) + 1] >>

\* C20: for every non-negative index, column_index_to_letters gives the
\* bijective base-26 numeral of index + 1; 0 gives "A", 25 gives "Z" and 26
\* gives "AA".
C20_BijectiveBase26 ==
    (probe.fn = "column" /\ probe.stage = "letters" /\ probe.index >= 0) =>
        /\ probe.letters = Bijective26(probe.index + 1)
        /\ probe.index = 0 => probe.letters = << "A" >>
        /\ probe.index = 25 => probe.letters = << "Z" >>
        /\ probe.index = 26 => probe.letters = << "A", "A" >>

\* the index 26, the first with two letters, has been converted
C20_Witness ==
    /\ probe.fn = "column" /\ probe.stage = "letters"
    /\ probe.index = 26
    /\ probe.letters = << "A", "A" >>

\* the leading run of letters of a string
RECURSIVE LeadingLettersOf(_)
LeadingLettersOf(l) ==
    IF l = << >> \/ Head(l) \notin AlphaSet THEN << >>
    ELSE << Head(l) >> \o LeadingLettersOf(Tail(l))

\* the other case of a letter
SwapCase(c) ==
    IF c \in UpperSet THEN LowerLetters[PosIn(UpperLetters, c)]
    ELSE IF c \in LowerSet THEN UpperLetters[PosIn(LowerLetters, c)]
    ELSE IF c = "e_acute" THEN "E_ACUTE"
    ELSE IF c = "E_ACUTE" THEN "e_acute"
    ELSE c

\* C21: column_letters_to_index reads only the leading run of letters of
\* its input: a label followed by a suffix that starts with a non-letter has
\* the index of the label alone ("B12" has index 1), and the case of the
\* letters does not change the index.
C21_LeadingLettersOnly ==
    (probe.fn = "label" /\ probe.stage = "index") =>
        /\ probe.index = column_letters_to_index(LeadingLettersOf(probe.label))
        /\ probe.index =
               column_letters_to_index([k \in DOMAIN probe.label |-> SwapCase(probe.label[k])])
        /\ probe.label = << "B", "1", "2" >> => probe.index = 1

\* the reference "ab7", lower-case letters before a digit, has been converted
C21_Witness ==
    /\ probe.fn = "label" /\ probe.stage = "index"
    /\ probe.label = << "a", "b", "7" >>
    /\ probe.index = 27

----------------------------------------------------------------------------
(* Properties of the cell value resolver (SpecCell).                       *)

SharedCellDone ==
    probe.fn = "cell" /\ probe.stage = "text" /\ probe.cell.t = "s"

\* C4: a shared-string cell whose value is not an integer, or is an integer
\* outside 0..len(table)-1, resolves to the empty string; table[i] is
\* returned only for 0 <= i < len(table).
C4_OutOfRangeIsEmpty ==
    SharedCellDone =>
        LET value == findtext_v(probe.cell)
            i == int(value)
        IN  IF i.ok /\ 0 <= i.value /\ i.value < Len(probe.shared)
            THEN probe.text = probe.shared[i.value + 1]
            ELSE probe.text = << >>

\* a Python str: a finite sequence of characters
IsStr(x) == DOMAIN x = 1 .. Len(x) /\ \A k \in DOMAIN x : x[k] \in STRING

\* a cell whose structure does not carry a value of its declared kind: a
\* shared-string cell without value text or with value text that is no
\* integer, an inline-string cell without a text child, any other cell
\* without value text
MalformedCell(cell) ==
    IF cell.t = "s" THEN findtext_v(cell) = << >> \/ ~int(findtext_v(cell)).ok
    ELSE IF cell.t = "inlineStr" THEN \A k \in DOMAIN cell.is : cell.is[k].tag # "t"
    ELSE findtext_v(cell) = << >>

\* C15: extract_cell_text returns a string for every cell element, of any
\* declared kind, with or without a value child, with any value text, and
\* for every shared string table; it never raises, and a cell of malformed
\* structure gives the empty string.
C15_ResolverTotal ==
    (probe.fn = "cell" /\ probe.stage # "input") =>
        /\ probe.stage = "text"
        /\ IsStr(probe.text)
        /\ MalformedCell(probe.cell) => probe.text = << >>

\* a shared-string cell whose value text "x" is no integer has been resolved
C15_Witness ==
    /\ probe.fn = "cell" /\ probe.stage = "text"
    /\ probe.cell.t = "s"
    /\ probe.cell.v = Some(<< "x" >>)
    /\ probe.shared # << >>
    /\ probe.text = << >>

----------------------------------------------------------------------------
(* Properties of the writer and the reader (Spec).                         *)

ReadDone == pc = "done" /\ call.op = "read"

\* the running read reads back a file that a write completed
ReadBack == ReadDone /\ source[call.path] # None

Written == source[call.path][1]

\* the widest row of a table
MaxWidth(T) == IF T = << >> THEN 0 ELSE MaxOf({ Len(T[i]) : i \in DOMAIN T })

\* one plus the largest 0-based column that holds a non-empty string
UsedWidth(T) ==
    LET used == { j \in 1 .. MaxWidth(T) : \E i \in DOMAIN T : j <= Len(T[i]) /\ T[i][j] # << >> }
    IN  IF used = {} THEN 0 ELSE MaxOf(used)

\* a string with every line end (CR LF, or a CR alone) as one LF
RECURSIVE LineEnds(_)
LineEnds(str_) ==
    IF str_ = << >> THEN << >>
    ELSE IF Head(str_) = "\r" THEN
        << "\n" >> \o LineEnds(IF Len(str_) >= 2 /\ str_[2] = "\n"
                               THEN SubSeq(str_, 3, Len(str_)) ELSE Tail(str_))
    ELSE << Head(str_) >> \o LineEnds(Tail(str_))

CellAt(T, i, j) == IF j <= Len(T[i]) THEN T[i][j] ELSE << >>

SheetColumns(elements) ==
    UNION { { column_letters_to_index(Letters(elements[i].cells[j])) :
                j \in { k \in DOMAIN elements[i].cells :
                          Letters(elements[i].cells[k]) # << >> } } :
            i \in DOMAIN elements }

SheetOnDisk == PartData(fs[call.path], SHEET).sheetData

ReadRows ==
    /\ ReadDone /\ result.kind = "return"
    /\ PartData(fs[call.path], SHEET).hasSheetData

\* C3: all rows returned by a read have the same length, one plus the
\* largest column index of any addressed cell of the sheet (0 when the
\* sheet has no addressed cell).
C3_CommonWidth ==
    ReadRows =>
        \A i \in DOMAIN result.value :
            Len(result.value[i]) =
                IF SheetColumns(SheetOnDisk) = {} THEN 0
                ELSE 1 + MaxOf(SheetColumns(SheetOnDisk))

\* a row without any cell is widened to three columns by a cell in column
\* C of the other row
C3_Witness ==
    /\ ReadRows
    /\ Len(result.value) = 2
    /\ \E i \in 1 .. 2 : SheetOnDisk[i].cells = << >> /\ Len(result.value[i]) = 3

ArchiveWithoutSheet(file) == file.exists /\ file.zip /\ ~HasPart(file, SHEET)

\* C5: a read of an archive that holds no worksheet part ends by raising;
\* no table is returned.
C5_MissingSheetRaises ==
    (ReadDone /\ ArchiveWithoutSheet(fs[call.path])) => result.kind = "raise"

\* the read got as far as the worksheet part, which the archive lacks
C5_Witness ==
    /\ ReadDone /\ ArchiveWithoutSheet(fs[call.path])
    /\ result.kind = "raise" /\ result.exc = "KeyError"

Writing == pc = "write" /\ call.op = "write"

\* the worksheet part is built and no part is written yet
Built == Writing /\ fs[call.path].parts = << >>

\* the 1-based columns of a row that hold a non-empty string, in order
RECURSIVE NonEmptyColumns(_, _)
NonEmptyColumns(row, j) ==
    IF j > Len(row) THEN << >>
    ELSE (IF row[j] # << >> THEN << j >> ELSE << >>) \o NonEmptyColumns(row, j + 1)

\* the leading letters and the rest of an address
RECURSIVE LeadingLetters(_)
LeadingLetters(ref) ==
    IF ref = << >> \/ ~isalpha(Head(ref)) THEN << >>
    ELSE << Head(ref) >> \o LeadingLetters(Tail(ref))

AfterLetters(ref) == SubSeq(ref, Len(LeadingLetters(ref)) + 1, Len(ref))

\* the address names 0-based column col and 1-based row row_
Addresses(ref, row_, col) ==
    /\ LeadingLetters(ref) # << >>
    /\ \A k \in DOMAIN LeadingLetters(ref) : LeadingLetters(ref)[k] \in Range(UpperLetters)
    /\ column_letters_to_index(LeadingLetters(ref)) = col
    /\ AllDigits(AfterLetters(ref))
    /\ Head(AfterLetters(ref)) # "0"
    /\ DigitsValue(AfterLetters(ref), 0) = row_

\* C6: in the worksheet part built for a table, row element i is numbered
\* i and holds one cell per non-empty value of row i, in column order, and
\* the cell for the value in 0-based column j has the address "letters of
\* j" followed by i; also when the rows differ in length.
C6_AddressesMatchPositions ==
    Built =>
        LET sd == call.sheet_xml.sheetData
        IN  /\ Len(sd) = Len(call.rows)
            /\ \A i \in DOMAIN sd :
                LET cols == NonEmptyColumns(call.rows[i], 1)
                IN  /\ sd[i].tag = "row"
                    /\ sd[i].r = Some(str(i))
                    /\ Len(sd[i].cells) = Len(cols)
                    /\ \A m \in DOMAIN cols :
                        /\ sd[i].cells[m].r # None
                        /\ Addresses(sd[i].cells[m].r[1], i, cols[m] - 1)

\* the jagged table [["N"], ["", "N"]] is being written: the value of its
\* second row stands at B2
C6_Witness ==
    /\ Built
    /\ call.rows = << << S_plain >>, << << >>, S_plain >> >>
    /\ Len(call.sheet_xml.sheetData[2].cells) = 1
    /\ call.sheet_xml.sheetData[2].cells[1].r = Some(<< "B", "2" >>)

XmlSpecial == { "&", "<", ">" }

HasSpecial(str_) == \E k \in DOMAIN str_ : str_[k] \in XmlSpecial

HasLineEnd(str_) == \E k \in DOMAIN str_ : str_[k] = "\r"

\* character data in which no "<" or ">" stands and every "&" starts one
\* of the references &amp; &lt; &gt;
Escaped(raw) ==
    \A k \in DOMAIN raw :
        /\ raw[k] \notin { "<", ">" }
        /\ raw[k] = "&" => \E e \in Entities : StartsWith(raw, k, e.name)

\* the cell elements of row element i of the file that sit in 0-based
\* column col
CellsOnDisk(i, col) ==
    LET cells == SheetOnDisk[i].cells
    IN  { cells[m] : m \in { k \in DOMAIN cells :
                               column_letters_to_index(Letters(cells[k])) = col } }

AllEmpty(row) == \A j \in DOMAIN row : row[j] = << >>

\* C8: a row whose cells are all empty is written as an empty row element
\* with its own row number; the read of the written file returns as many
\* rows as were written, every value in the row it was written in, and a
\* row of empty strings for an all-empty row.
C8_EmptyRowsKept ==
    /\ Built =>
           LET sd == call.sheet_xml.sheetData
           IN  /\ Len(sd) = Len(call.rows)
               /\ \A i \in DOMAIN call.rows :
                      AllEmpty(call.rows[i]) =>
                          sd[i] = [tag |-> "row", r |-> Some(str(i)), cells |-> << >>]
    /\ ReadBack =>
           /\ result.kind = "return"
           /\ Len(result.value) = Len(Written)
           /\ \A i \in DOMAIN Written :
               /\ AllEmpty(Written[i]) => AllEmpty(result.value[i])
               /\ \A j \in DOMAIN Written[i] :
                      Written[i][j] # << >> =>
                          /\ j <= Len(result.value[i])
                          /\ result.value[i][j] = LineEnds(Written[i][j])

\* [["Name", "City"], ["Acme", "Helsinki"], ["", ""]] has been written and
\* read back: three rows, the third ["", ""]
C8_Witness ==
    /\ ReadBack
    /\ Written = ExampleTable
    /\ result.kind = "return"
    /\ Len(result.value) = 3
    /\ result.value[3] = << << >>, << >> >>

WriteFailed == pc = "done" /\ call.op = "write" /\ result.kind = "raise"

CompleteArchive(file) ==
    /\ file.exists /\ file.zip
    /\ \E sheet_xml \in { file.parts[k].data : k \in DOMAIN file.parts } :
           file.parts = PartsToWrite(sheet_xml)

\* C9: a write that fails leaves no partial archive at the destination:
\* there is no file there, or a complete archive.
C9_NoPartialArchive ==
    WriteFailed => (~fs[call.path].exists \/ CompleteArchive(fs[call.path]))

\* C10: a call acquires at most one archive handle, holds it exactly while
\* it is inside its with block, and has closed it when it returns or
\* raises, whatever the exit path.
C10_HandleScoped ==
    /\ opens <= 1
    /\ pc \in { "write", "read_shared", "read_sheet" } => (handle = "open" /\ opens = 1)
    /\ pc = "idle" => (handle = "none" /\ opens = 0)
    /\ pc = "done" => handle = (IF opens = 1 THEN "closed" ELSE "none")

\* a read left its with block by the parse failure of the worksheet part
C10_Witness ==
    /\ ReadDone
    /\ HasPart(fs[call.path], SHEET)
    /\ result.kind = "raise" /\ result.exc = "ParseError"
    /\ handle = "closed" /\ opens = 1

----------------------------------------------------------------------------
(* The cross-references of a package.                                      *)

WriteReturned == pc = "done" /\ call.op = "write" /\ result.kind = "return"

PartNames(file) == { file.parts[k].name : k \in DOMAIN file.parts }

\* the folder of a part
Dirname(name) == SubSeq(name, 1, Len(name) - 1)

\* the relationships part of a source part: <folder>/_rels/<file>.rels
RelsPartOf(name) == Dirname(name) \o << "_rels", name[Len(name)] \o ".rels" >>

\* the relationships part of the package itself
PackageRels == << "_rels", ".rels" >>

ContentTypes == << "[Content_Types].xml" >>

\* the part a target names, relative to the folder base
Resolve(base, target) ==
    IF target # << >> /\ Head(target) = "" THEN Tail(target) ELSE base \o target

\* the relationships declared in part name of the file (none if absent)
RelsIn(file, name) ==
    IF HasPart(file, name) /\ PartData(file, name).kind = "rels"
    THEN PartData(file, name).rels ELSE {}

\* the workbook part at wb lists one sheet whose relationship id is
\* declared in the workbook's relationships part and resolves to part sheet
SheetLinked(file, wb, sheet) ==
    LET workbook == PartData(file, wb)
    IN  /\ Len(workbook.sheets) = 1
        /\ \E rel \in RelsIn(file, RelsPartOf(wb)) :
               /\ rel.Id = workbook.sheets[1].rid
               /\ Resolve(Dirname(wb), rel.Target) = sheet

CrossReferenced(file, sheet_xml) ==
    /\ \E wb \in { n \in PartNames(file) : PartData(file, n).kind = "workbook" } :
           /\ SheetLinked(file, wb, SHEET)
           /\ \E rel \in RelsIn(file, PackageRels) : Resolve(<< >>, rel.Target) = wb
    /\ HasPart(file, SHEET) /\ PartData(file, SHEET) = sheet_xml
    /\ HasPart(file, ContentTypes)
    /\ \A o \in PartData(file, ContentTypes).overrides : HasPart(file, Tail(o))

\* C11: the package a write has completed is cross-referenced: its workbook
\* part lists exactly one sheet, that sheet's relationship id is declared in
\* the workbook relationships part and resolves to the worksheet part that
\* was written, the package relationship targets the workbook part, and
\* every part named by a content-type override is in the archive.
C11_CrossReferenced ==
    WriteReturned =>
        CrossReferenced(fs[call.path], build_sheet_xml(sanitize_rows(Written)))

\* a write of a table with values has returned
C11_Witness ==
    /\ WriteReturned
    /\ Written = ExampleTable
    /\ Len(fs[call.path].parts) = 5

----------------------------------------------------------------------------
(* Tolerance of the reader for anomalies of single cells.                  *)

\* the read is done on an archive whose parts are all well-formed
WellFormedRead ==
    /\ ReadDone
    /\ fs[call.path].exists /\ fs[call.path].zip
    /\ HasPart(fs[call.path], SST) => fromstring_sst(PartData(fs[call.path], SST)).ok
    /\ HasPart(fs[call.path], SHEET)
    /\ fromstring_sheet(PartData(fs[call.path], SHEET)).ok
    /\ PartData(fs[call.path], SHEET).hasSheetData

\* a shared-string cell whose value is an index into the table
GoodSharedIndex(c, shared) ==
    LET i == int(findtext_v(ParsedCell(c)))
    IN  i.ok /\ 0 <= i.value /\ i.value < Len(shared)

\* the string a cell element stands for: for a shared-string cell the
\* table entry of its index, or the empty string when the index is bad
CellString(c, shared) ==
    IF c.t = "s"
    THEN IF GoodSharedIndex(c, shared)
         THEN shared[int(findtext_v(ParsedCell(c))).value + 1] ELSE << >>
    ELSE extract_cell_text(ParsedCell(c), shared).value

\* the cells of row element i that are addressed to 0-based column col
AddressedTo(i, col) ==
    { k \in DOMAIN SheetOnDisk[i].cells :
        /\ Letters(SheetOnDisk[i].cells[k]) # << >>
        /\ column_letters_to_index(Letters(SheetOnDisk[i].cells[k])) = col }

\* the string of column col of row i: that of the last cell addressed
\* there, the empty string when there is none
StringAt(i, col) ==
    IF AddressedTo(i, col) = {} THEN << >>
    ELSE CellString(SheetOnDisk[i].cells[MaxOf(AddressedTo(i, col))], shared_strings)

\* C16: anomalies of single cells never abort a read: with well-formed
\* parts the read returns one row per row element, a cell without column
\* letters in its address is skipped, a shared-string cell with a bad index
\* reads as the empty string, and every other cell is at its position.
C16_CellAnomaliesTolerated ==
    WellFormedRead =>
        /\ result.kind = "return"
        /\ Len(result.value) = Len(SheetOnDisk)
        /\ \A i \in DOMAIN result.value : \A j \in DOMAIN result.value[i] :
               result.value[i][j] = StringAt(i, j - 1)

----------------------------------------------------------------------------
(* Empty cells and absent cells.                                           *)

\* the table the reader makes of a <sheetData> with the shared strings of
\* the running read
ReadOf(elements) == MaterializeRows(ParsedRows(elements), shared_strings)

\* cell k of row element i of the sheet on disk is addressed and its value
\* is the empty string
EmptyCellAt(i, k) ==
    LET c == SheetOnDisk[i].cells[k]
    IN  /\ Letters(c) # << >>
        /\ extract_cell_text(ParsedCell(c), shared_strings) = Return(<< >>)

\* no other cell of row element i is addressed to the column of cell k
OnlyCellOfColumn(i, k) ==
    AddressedTo(i, column_letters_to_index(Letters(SheetOnDisk[i].cells[k]))) = { k }

\* the sheet on disk without cell k of row element i
WithoutCell(i, k) ==
    [SheetOnDisk EXCEPT ![i].cells = SubSeq(@, 1, k - 1) \o SubSeq(@, k + 1, Len(@))]

\* every row of table T padded with empty strings to the width of the row
\* of table R at the same place
PaddedLike(T, R) ==
    [i \in DOMAIN T |-> T[i] \o [j \in 1 .. (Len(R[i]) - Len(T[i])) |-> << >>]]

\* C17 as stated: the read of a sheet with an empty cell gives exactly the
\* table, widths and contents, that the read of the same sheet without that
\* cell element gives.
C17_EmptyAsAbsent ==
    WellFormedRead =>
        \A i \in DOMAIN SheetOnDisk : \A k \in DOMAIN SheetOnDisk[i].cells :
            EmptyCellAt(i, k) => ReadOf(WithoutCell(i, k)) = result.value

\* C17, amended: when the empty cell is the only cell of its row addressed
\* to its column, the read of the sheet without it gives the same number
\* of rows, no row wider than with it, and the same table once its rows are
\* padded with empty strings to the widths read with the cell.
C17_EmptyAsAbsentUpToWidth ==
    WellFormedRead =>
        \A i \in DOMAIN SheetOnDisk : \A k \in DOMAIN SheetOnDisk[i].cells :
            (EmptyCellAt(i, k) /\ OnlyCellOfColumn(i, k)) =>
                LET without == ReadOf(WithoutCell(i, k))
                IN  /\ Len(without) = Len(result.value)
                    /\ \A r \in DOMAIN without : Len(without[r]) <= Len(result.value[r])
                    /\ PaddedLike(without, result.value) = result.value

\* a sheet was read in which an empty cell sits in a row of a table that
\* is three columns wide with it and without it
C17_Witness ==
    /\ WellFormedRead
    /\ result.kind = "return"
    /\ \E i \in DOMAIN SheetOnDisk : \E k \in DOMAIN SheetOnDisk[i].cells :
           /\ EmptyCellAt(i, k) /\ OnlyCellOfColumn(i, k)
           /\ Len(result.value[i]) = 3
           /\ Len(ReadOf(WithoutCell(i, k))[i]) = 3

----------------------------------------------------------------------------
(* Archives without a shared strings part.                                 *)

NoSharedStrings == call.op = "read" /\ ~HasPart(fs[call.path], SST)

\* the character data of a text node of the file
Decoded(raw) == XmlText(raw, 1, << >>).text

\* the value an inline-string or raw cell element of the file carries
PlainValue(c) ==
    IF c.t = "inlineStr"
    THEN join([k \in DOMAIN c.is |-> IF c.is[k].tag = "t" THEN Decoded(c.is[k].text)
                                     ELSE << >>])
    ELSE IF c.v = None THEN << >> ELSE Decoded(c.v[1])

\* C19: an archive without a shared strings part is read successfully:
\* read_shared_strings returns the empty table, the read of a well-formed
\* worksheet returns, and every inline-string or raw cell (the last one
\* addressed to its column in its row) is in the table with its value.
C19_SharedStringsOptional ==
    /\ (pc \in { "read_sheet", "done" } /\ NoSharedStrings) => shared_strings = << >>
    /\ (WellFormedRead /\ NoSharedStrings) =>
           /\ result.kind = "return"
           /\ \A i \in DOMAIN SheetOnDisk : \A k \in DOMAIN SheetOnDisk[i].cells :
                  LET c == SheetOnDisk[i].cells[k]
                      col == column_letters_to_index(Letters(c))
                  IN  (c.t # "s" /\ Letters(c) # << >> /\ k = MaxOf(AddressedTo(i, col))) =>
                          result.value[i][col + 1] = PlainValue(c)

\* a sheet with an inline-string cell and a raw cell was read from an
\* archive without shared strings part
C19_Witness ==
    /\ WellFormedRead /\ NoSharedStrings
    /\ result.kind = "return"
    /\ \E i \in DOMAIN result.value :
           /\ Len(result.value[i]) = 3
           /\ result.value[i][1] = << "4", "2" >>
           /\ result.value[i][3] = << "x", "&" >>

----------------------------------------------------------------------------
(* Independence of calls that run in parallel (SpecPar).                   *)

\* the outcome of read_rows_from_workbook run alone on a file
ReadAlone(file) ==
    IF ~file.exists THEN Raise("FileNotFoundError")
    ELSE IF ~file.zip THEN Raise("BadZipFile")
    ELSE LET r == read_shared_strings(file)
         IN  IF r.kind = "raise" THEN r ELSE read_sheet(file, r.value)

IsPrefix(a, b) == Len(a) <= Len(b) /\ a = SubSeq(b, 1, Len(a))

\* what write_rows_to_workbook run alone on a fresh path can end with: the
\* complete archive of the rows and a return, or a raise that leaves no
\* file or an archive cut short
WroteAlone(rows, outcome, file) ==
    LET parts == PartsToWrite(build_sheet_xml(sanitize_rows(rows)))
    IN  \/ /\ outcome = Return(None)
           /\ file = [exists |-> TRUE, zip |-> TRUE, parts |-> parts]
        \/ /\ outcome = Raise("OSError")
           /\ \/ file = NoFile
              \/ /\ file.exists /\ IsPrefix(file.parts, parts)
                 /\ file.parts = parts => ~file.zip

\* C18: calls that run in parallel on different paths end as they do when
\* run alone, one after another: a read returns or raises what the read of
\* the file it found gives and leaves that file as it was; a write ends
\* with the outcome and the file content of the write of its rows alone.
C18_CallsIndependent ==
    \A t \in Threads :
        pc[t] = "done" =>
            IF call[t].op = "read"
            THEN /\ result[t] = ReadAlone(call[t].found)
                 /\ fs[call[t].path] = call[t].found
            ELSE WroteAlone(call[t].rows, result[t], fs[call[t].path])

\* a read of an archive with shared strings ended while the other thread
\* was in the middle of a call of its own that had loaded its shared strings
C18_Witness ==
    \E t \in Threads : \E u \in Threads \ { t } :
        /\ pc[t] = "done" /\ call[t].op = "read"
        /\ result[t] = Return(<< << << "s", "0" >>, << "y" >> >> >>)
        /\ pc[u] = "read_sheet" /\ shared_strings[u] = << >>

----------------------------------------------------------------------------
(* The strings of the shared string table.                                 *)

\* the shared strings of the running read are loaded from a well-formed part
SharedStringsLoaded ==
    /\ call.op = "read" /\ pc \in { "read_sheet", "done" }
    /\ fs[call.path].exists /\ fs[call.path].zip
    /\ HasPart(fs[call.path], SST)
    /\ fromstring_sst(PartData(fs[call.path], SST)).ok

EntriesOnDisk == PartData(fs[call.path], SST).si

\* all the texts of one entry in document order: that of its plain text
\* child, then those of its rich-text runs
AllTexts(si) ==
    (IF si.t = None THEN << >> ELSE Decoded(si.t[1]))
    \o join([k \in DOMAIN si.runs |->
                IF si.runs[k] = None THEN << >> ELSE Decoded(si.runs[k][1])])

\* C22: read_shared_strings returns one string per entry, in entry order,
\* and each string is the concatenation in document order of all the texts
\* of the entry: its plain text, its rich-text runs, or both.
C22_AllRunTexts ==
    SharedStringsLoaded =>
        /\ Len(shared_strings) = Len(EntriesOnDisk)
        /\ \A i \in DOMAIN EntriesOnDisk : shared_strings[i] = AllTexts(EntriesOnDisk[i])

----------------------------------------------------------------------------
(* Inline strings.                                                         *)

\* the texts of all the children of an inline string in document order,
\* those of its rich-text runs included
RECURSIVE AllInlineTexts(_)
AllInlineTexts(is) ==
    IF is = << >> THEN << >>
    ELSE Head(is).text \o AllInlineTexts(Tail(is))

\* C23: for an inline-string cell extract_cell_text returns the
\* concatenation of the contents of all the text runs inside the inline
\* string, the texts of the rich-text runs nested in it included.
C23_InlineAllRuns ==
    (probe.fn = "cell" /\ probe.stage \in { "text", "raised" }
     /\ probe.cell.t = "inlineStr") =>
        /\ probe.stage = "text"
        /\ probe.text = AllInlineTexts(probe.cell.is)

----------------------------------------------------------------------------
(* Cell addresses and row elements of the worksheet.                       *)

\* the cells of row element i whose address has a prefix of letters that
\* names the 0-based column col
PrefixAddressedTo(i, col) ==
    { k \in DOMAIN SheetOnDisk[i].cells :
        LET prefix == LeadingLettersOf(get_r(SheetOnDisk[i].cells[k]))
        IN  prefix # << >> /\ column_letters_to_index(prefix) = col }

\* the columns the alphabetic prefixes of the addresses of row i name
PrefixColumns(i) ==
    { column_letters_to_index(LeadingLettersOf(get_r(SheetOnDisk[i].cells[k]))) :
        k \in { m \in DOMAIN SheetOnDisk[i].cells :
                  LeadingLettersOf(get_r(SheetOnDisk[i].cells[m])) # << >> } }

\* C24: read_rows_from_workbook derives the column of a cell from the
\* alphabetic prefix of its address alone: the value of a cell is in the
\* column its prefix names (the last cell of a column wins), so a cell
\* addressed "A1B" is in column 0.
C24_ColumnFromPrefix ==
    (WellFormedRead /\ result.kind = "return") =>
        \A i \in DOMAIN SheetOnDisk : \A col \in PrefixColumns(i) :
            /\ i <= Len(result.value) /\ col < Len(result.value[i])
            /\ result.value[i][col + 1] =
                   extract_cell_text(
                       ParsedCell(SheetOnDisk[i].cells[MaxOf(PrefixAddressedTo(i, col))]),
                       shared_strings).value

\* the row elements among the children of <sheetData>, in document order
RECURSIVE RowElements(_)
RowElements(elements) ==
    IF elements = << >> THEN << >>
    ELSE (IF Head(elements).tag = "row" THEN << Head(elements) >> ELSE << >>)
         \o RowElements(Tail(elements))

\* C25: a read returns exactly one row per row element of the sheet data,
\* in document order; elements of the sheet data that are not row elements
\* add no row.
C25_OneRowPerRowElement ==
    (WellFormedRead /\ result.kind = "return") =>
        /\ Len(result.value) = Len(RowElements(SheetOnDisk))
        /\ result.value = ReadOf(RowElements(SheetOnDisk))

----------------------------------------------------------------------------
(* Properties of the run of main (SpecMain).                               *)

\* the input workbook has a worksheet part that parses and holds no
\* <sheetData>, and its shared strings, if any, parse
InputWithoutSheetData ==
    /\ call.op = "main"
    /\ fs[INPUT].exists /\ fs[INPUT].zip
    /\ HasPart(fs[INPUT], SST) => fromstring_sst(PartData(fs[INPUT], SST)).ok
    /\ HasPart(fs[INPUT], SHEET)
    /\ fromstring_sheet(PartData(fs[INPUT], SHEET)).ok
    /\ ~PartData(fs[INPUT], SHEET).hasSheetData

\* C28: when the worksheet part exists and parses but has no sheetData
\* element, read_rows_from_workbook returns the empty table without
\* raising, and main then reports that the workbook contains no rows and
\* returns 1 without writing an output file.
C28_NoSheetDataNoRows ==
    InputWithoutSheetData =>
        /\ read_rows_from_workbook(fs[INPUT]) = Return(<< >>)
        /\ pc # "read" =>
               /\ pc = "done"
               /\ result = Return(1)
               /\ probe.stderr = << "Input workbook does not contain any rows" >>
               /\ ~probe.passed
               /\ fs[OUTPUT] = NoFile

C28_Witness ==
    /\ InputWithoutSheetData
    /\ HasPart(fs[INPUT], SST)
    /\ pc = "done"
    /\ result = Return(1)

\* main has passed its table to write_rows_to_workbook
TablePassed == call.op = "main" /\ pc = "done" /\ probe.passed

InputTable == read_rows_from_workbook(fs[INPUT]).value

OutputTable == probe.output_rows

\* the names of the result columns of the run: Bio, and those of the
\* lookups the configuration enables
ResultNames ==
    << Bio >>
    \o (IF call.background_check THEN << BackgroundCheck >> ELSE << >>)
    \o (IF call.company_lookup THEN << CompanyInfo >> ELSE << >>)

\* the header with every name of names it lacks added at its end, in order
RECURSIVE Extended(_, _)
Extended(header, names) ==
    IF names = << >> THEN header
    ELSE Extended(IF Head(names) \in Range(header) THEN header
                  ELSE header \o << Head(names) >>,
                  Tail(names))

\* the position in the header of the first column with the name
ColumnNamed(header, name) ==
    CHOOSE j \in DOMAIN header :
        /\ header[j] = name
        /\ \A k \in 1 .. j - 1 : header[k] # name

ResultColumns(header) == { ColumnNamed(header, ResultNames[n]) : n \in DOMAIN ResultNames }

\* the URL of a row of the table under the header
UrlOf(row, header) == strip(row[ColumnNamed(header, LinkedInPage)])

\* output is input with the header extended by the result columns it
\* lacked; row for row, every cell outside the result columns is that of
\* input, and a row without URL has empty result columns and no call
ProcessedFrom(output, input, calls) ==
    LET header == output[1]
        columns == ResultColumns(header)
    IN  /\ header = Extended(input[1], ResultNames)
        /\ Len(output) = Len(input)
        /\ \A i \in 2 .. Len(output) :
               /\ Len(output[i]) = Len(header)
               /\ \A j \in DOMAIN output[i] \ columns :
                      j <= Len(input[i]) /\ output[i][j] = input[i][j]
               /\ UrlOf(input[i], header) = << >> =>
                      /\ \A j \in columns : output[i][j] = << >>
                      /\ \A n \in DOMAIN calls : calls[n].row # i

\* C29: the table main passes to write_rows_to_workbook has the header,
\* extended by the result columns it lacked, as first row, then one row
\* per input data row in input order; every row has len(header) cells;
\* every cell outside the result columns equals the input cell at its
\* position; a row with an empty URL has the empty string in every result
\* column and no fetch is made for it.
C29_OutputTable ==
    TablePassed =>
        /\ ProcessedFrom(OutputTable, InputTable, probe.calls)
        /\ result = Return(0) => source[OUTPUT] = Some(OutputTable)

C29_Witness ==
    /\ TablePassed
    /\ call.background_check
    /\ Len(InputTable) = 3
    /\ Len(OutputTable[1]) = Len(InputTable[1]) + 1
    /\ UrlOf(InputTable[2], OutputTable[1]) = << >>
    /\ InputTable[2][ColumnNamed(OutputTable[1], Bio)] = << "o" >>
    /\ UrlOf(InputTable[3], OutputTable[1]) = << "u" >>
    /\ OutputTable[3][ColumnNamed(OutputTable[1], Bio)] = << "b" >>
    /\ Len(probe.calls) = 2

----------------------------------------------------------------------------
(* Properties of the OpenAI lookups (SpecLookup).                          *)

Lookups == { "analyze_description", "fetch_company_info", "research_investor" }

\* the call under test has returned
LookupReturned == probe.fn \in Lookups /\ probe.stage \in { "returned", "copied", "raised" }

\* the call got its inputs and the response parsed as the JSON object asked for
ParsedAsJson ==
    /\ probe.api_key # ""
    /\ IF probe.fn = "analyze_description" THEN probe.description_len > 50
       ELSE probe.company_name # ""
    /\ probe.response.kind = "json"

\* the template values of the prompt, field by field of the result
Placeholders ==
    [Website |-> { "[website.com]" }, Investment_Stage |-> { "etc" },
     Ticket_Size |-> { "€X - €Y", "Around €X" }, Sector_Focus |-> { "etc" },
     Investment_Strategy |-> { "Brief strategy description" }]

EmptyOrPlaceholder(found) ==
    \E field \in DOMAIN Placeholders :
        found[field] = "" \/ found[field] \in Placeholders[field]

\* what the primary response says
Primary == investor_result(probe.response.data)

\* the calls of research_investor_with_web the call has made
FallbackCalls == { n \in DOMAIN probe.calls : probe.calls[n] = "research_investor_with_web" }

\* C27: research_investor calls research_investor_with_web if and only if
\* the primary response parsed as JSON and is empty or a placeholder; the
\* result of the fallback is returned only when its Website is not empty
\* and its Error is empty, otherwise the primary result is returned with
\* an empty Error; the fallback is called at most once per company.
C27_FallbackOnEmptyOnly ==
    (LookupReturned /\ probe.fn = "research_investor") =>
        /\ Cardinality(FallbackCalls) <= 1
        /\ FallbackCalls # {} <=> (ParsedAsJson /\ EmptyOrPlaceholder(Primary))
        /\ FallbackCalls # {} =>
               LET web_result == research_investor_with_web(probe.web)
               IN  IF web_result.Website # "" /\ web_result.Error = ""
                   THEN probe.result = web_result
                   ELSE probe.result = [Primary EXCEPT !.Error = ""]

C27_Witness ==
    /\ probe.fn = "research_investor" /\ probe.stage = "returned"
    /\ probe.response.kind = "json" /\ probe.response.data.www = "[website.com]"
    /\ probe.web.kind = "json"
    /\ probe.calls = << "research_investor_with_web" >>
    /\ probe.result.Website = "acme.vc"

\* the key of the error message in the result of the function
ErrorField(fn) == IF fn = "research_investor" THEN "Error" ELSE "AI_Error"

\* C30: every return path of analyze_description, fetch_company_info and
\* research_investor returns a dict with every column the main loop of
\* its caller copies, so the update of the row raises no KeyError; the
\* error field is empty only when the response parsed as JSON.
C30_ResultsComplete ==
    LookupReturned =>
        /\ ColumnsCopied(probe.fn) \cup { ErrorField(probe.fn) } \subseteq DOMAIN probe.result
        /\ probe.stage # "raised"
        /\ probe.stage = "copied" =>
               \A col \in ColumnsCopied(probe.fn) : probe.row[col] = probe.result[col]
        /\ probe.result[ErrorField(probe.fn)] = "" => ParsedAsJson

C30_Witness ==
    /\ probe.fn = "analyze_description" /\ probe.stage = "copied"
    /\ probe.description_len > 50 /\ probe.api_key # ""
    /\ probe.response.kind = "bad shape"
    /\ probe.row.AI_Error = probe.response.message
    /\ probe.row.AI_Website = ""

----------------------------------------------------------------------------
(* Properties of the run of enrich_investor_data.main (SpecEnrich).        *)

\* the run has gone through its loop and saved the sheet
EnrichDone == call.op = "enrich" /\ pc = "done" /\ result = Return(0)

\* the rows of the spreadsheet the loop has handled, in the order it did
RECURSIVE SpreadsheetRows(_)
SpreadsheetRows(visited) ==
    IF visited = << >> THEN << >>
    ELSE << Head(visited) + 2 >> \o SpreadsheetRows(Tail(visited))

\* the rows first, first + 1, ..., last
RECURSIVE FromTo(_, _)
FromTo(first, last) ==
    IF first > last THEN << >> ELSE << first >> \o FromTo(first + 1, last)

\* the last row of the spreadsheet
LastRow == Len(call.file.sheet)

\* C26: --start-row counts the rows of the spreadsheet, row 1 being the
\* header: the rows handled are those from the start row to the last row
\* of the sheet, each once and in order (with the default start row 2
\* every data row, the first one below the header included), and with
\* --max-rows m the m rows from the start row on, cut at the end of the
\* sheet.
C26_StartRowIsSpreadsheetRow ==
    (EnrichDone /\ call.start_row >= 2
     /\ (call.max_rows # None => call.max_rows[1] >= 1)) =>
        SpreadsheetRows(probe.visited) =
            FromTo(call.start_row,
                   IF call.max_rows = None THEN LastRow
                   ELSE Min(call.start_row + call.max_rows[1] - 1, LastRow))

====
